---- MODULE Spec2Model ----
(***************************************************************************)
(* Finance core of the project dashboard: the shared expense and income   *)
(* ledgers (pages/Finance, tasks/TaskDetailsDialog), the payroll store     *)
(* (data/salaryStore, finance/SalaryPaymentsTab), the accrual calculator   *)
(* (getEmployeeAccrued) and the proportional allocator                     *)
(* (finance/SalaryDistributionTab).                                        *)
(*                                                                         *)
(* Amounts are JavaScript numbers.  The ledger and payroll parts carry     *)
(* whole rubles; the allocator part carries payment amounts in half-rubles *)
(* so that a typed amount such as 100.5 can be represented.                *)
(* Display-only fields (taskTitle, employee names, labels) are left out.   *)
(***************************************************************************)
EXTENDS Integers, Sequences, FiniteSets, TLC

(***************************************************************************)
(* Bounds of the model                                                     *)
(***************************************************************************)
\* number of ledger appends explored in one behaviour
MaxAppends == 2
\* number of leading per-employee fields of a form the accountant fills in
MaxFilled == 2

(***************************************************************************)
(* Generic helpers                                                         *)
(***************************************************************************)
RECURSIVE SumSeq(_)
\* Array.prototype.reduce((s, x) => s + x, 0) over a sequence of numbers
SumSeq(s) == IF s = <<>> THEN 0 ELSE Head(s) + SumSeq(Tail(s))

RECURSIVE SumAmounts(_)
\* entries.reduce((s, e) => s + e.amount, 0)
SumAmounts(s) == IF s = <<>> THEN 0 ELSE Head(s).amount + SumAmounts(Tail(s))

RECURSIVE SumOver(_, _)
\* sum of f[x] over the finite set S
SumOver(f, S) ==
  IF S = {} THEN 0
  ELSE LET x == CHOOSE y \in S : TRUE IN f[x] + SumOver(f, S \ {x})

Abs(x) == IF x < 0 THEN -x ELSE x

(***************************************************************************)
(* Text typed into <Input type="number"> fields and its conversion         *)
(***************************************************************************)
AmountTexts == {"", "abc", "-30", "0", "50"}

\* parseFloat: NaN for text with no leading number, else the number
parseFloat(s) ==
  CASE s = "-30" -> [nan |-> FALSE, val |-> -30]
    [] s = "0"   -> [nan |-> FALSE, val |-> 0]
    [] s = "50"  -> [nan |-> FALSE, val |-> 50]
    [] OTHER     -> [nan |-> TRUE,  val |-> 0]

\* the idiom  parseFloat(v) || 0 : NaN and 0 are falsy
parseFloatOrZero(s) ==
  LET r == parseFloat(s) IN IF r.nan \/ r.val = 0 THEN 0 ELSE r.val

(***************************************************************************)
(* Fixture data (data/mockData)                                            *)
(***************************************************************************)
Undefined == "undefined"
NoProject == "__no_project__"

\* rows of the Finance table: activeProjects of the model
ProjectIds == {"proj-1", "proj-2"}
Buckets == ProjectIds \cup {NoProject}

\* week columns that carry seeded entries
LedgerWeeks == 0..7
\* week column the model clicks on (the column of the current week)
EditableWeeks == {2}

\* accounting tasks of mockTasks carried by the model
mockTasks ==
  [t \in {"acc-3", "acc-4", "acc-8"} |->
    CASE t = "acc-3" -> [id |-> t, status |-> "done", taskType |-> "accounting",
                         accountingSubtype |-> "additional", projectId |-> "proj-1",
                         selectedEmployeeIds |-> <<>>]
      [] t = "acc-4" -> [id |-> t, status |-> "in_progress", taskType |-> "accounting",
                         accountingSubtype |-> "salary", projectId |-> "proj-1",
                         selectedEmployeeIds |-> <<"user-2", "user-3", "user-6">>]
      [] t = "acc-8" -> [id |-> t, status |-> "in_progress", taskType |-> "accounting",
                         accountingSubtype |-> "subcontract", projectId |-> "proj-2",
                         selectedEmployeeIds |-> <<"psub-3">>]]

TaskIds == DOMAIN mockTasks

\* ids given to tasks created while the model runs ("task-" + Date.now())
NewTaskIds == {"task-new"}

\* a project as the Finance page reads it from GET /projects
Project(status, budget) == [status |-> status, budget |-> budget]

\* projects of mockProjects carried by the model
mockProjects ==
  [p \in ProjectIds |->
    CASE p = "proj-1" -> Project("active", 12500000)
      [] p = "proj-2" -> Project("active", 8200000)]

\* demoUsers of AuthContext: role -> roles
demoUsers ==
  [r \in {"admin", "gip", "executor", "accountant"} |-> {r}]

UserRoles == DOMAIN demoUsers

\* roles picked in the role select of the header
RolesTried == {"admin", "accountant"}

(***************************************************************************)
(* PaymentEntry and the seeded ledgers                                     *)
(***************************************************************************)
Entry(amount, taskId, reason, hasEP, eps) ==
  [amount |-> amount, taskId |-> taskId, reason |-> reason,
   hasEmployeePayments |-> hasEP, employeePayments |-> eps]

EP(id, amount) == [id |-> id, amount |-> amount]

EmptyLedger == [b \in Buckets |-> [w \in LedgerWeeks |-> <<>>]]

buildInitialPayments ==
  [b \in Buckets |-> [w \in LedgerWeeks |->
    CASE b = "proj-1" /\ w = 2 ->
           << Entry(250000, "acc-1", "salary", TRUE,
                    << EP("user-1", 75000), EP("user-2", 67500),
                       EP("user-3", 52500), EP("user-4", 55000) >>) >>
      [] b = "proj-1" /\ w = 4 ->
           << Entry(850000, "acc-2", "subcontract", FALSE, <<>>) >>
      [] b = "proj-1" /\ w = 5 ->
           << Entry(45000, "acc-3", "additional", FALSE, <<>>),
              Entry(180000, "acc-4", "salary", TRUE,
                    << EP("user-2", 67500), EP("user-3", 52500),
                       EP("user-6", 60000) >>) >>
      [] b = "proj-1" /\ w = 7 ->
           << Entry(320000, "acc-5", "subcontract", FALSE, <<>>) >>
      [] b = "proj-2" /\ w = 1 ->
           << Entry(200000, "acc-8", "subcontract", FALSE, <<>>) >>
      [] b = "proj-2" /\ w = 3 ->
           << Entry(175000, Undefined, "salary", TRUE,
                    << EP("user-2", 67500), EP("user-7", 48000),
                       EP("user-4", 59500) >>) >>
      [] b = "proj-2" /\ w = 6 ->
           << Entry(95000, Undefined, "additional", FALSE, <<>>) >>
      [] b = NoProject /\ w = 4 ->
           << Entry(385000, "acc-7", "salary", TRUE,
                    << EP("user-1", 75000), EP("user-2", 67500),
                       EP("user-3", 52500), EP("user-4", 55000),
                       EP("user-6", 30000), EP("user-7", 48000),
                       EP("user-8", 57000) >>) >>
      [] OTHER -> <<>>]]

buildInitialIncomes ==
  [b \in Buckets |-> [w \in LedgerWeeks |->
    CASE b = "proj-1" /\ w = 0 -> << Entry(3750000, Undefined, "income", FALSE, <<>>) >>
      [] b = "proj-1" /\ w = 5 -> << Entry(2500000, Undefined, "income", FALSE, <<>>) >>
      [] b = "proj-2" /\ w = 0 -> << Entry(2460000, Undefined, "income", FALSE, <<>>) >>
      [] b = "proj-2" /\ w = 4 -> << Entry(1640000, Undefined, "income", FALSE, <<>>) >>
      [] OTHER -> <<>>]]

(***************************************************************************)
(* State                                                                   *)
(***************************************************************************)
VARIABLES
  user,             \* AuthProvider: role of the current demo user
  projects,         \* mock API: the project list served by GET /projects
  createdTasks,     \* mock API: tasks added by POST /tasks, by id
  isCreateTaskOpen, \* Finance: the CreateTaskDialog is open
  createTaskProjectId, \* Finance: project the CreateTaskDialog was opened for
  selectedProjectId,   \* CreateTaskDialog: selectedProjectId
  accountingProjectId, \* CreateTaskDialog: accountingProjectId
  taskStatus,       \* mock API: status of every task
  globalPayments,   \* pages/Finance: shared expense ledger
  globalIncomes,    \* pages/Finance: shared income ledger
  financeMounted,   \* the Finance page is mounted
  payments,         \* Finance: local copy of the expense ledger
  incomes,          \* Finance: local copy of the income ledger
  dialogOpen,       \* Finance: entry dialog is open
  dialogMode,       \* Finance: "payment" or "income"
  editCell,         \* Finance: cell being edited, or NoCell
  cardTaskId,       \* TaskDetailsDialog: task shown, or Undefined when closed
  cardTask,         \* TaskDetailsDialog: status of the fetched task
  showPaymentForm,  \* TaskDetailsDialog: payment form is shown
  pendingPatch,     \* PATCH /tasks/:id requests in flight, per task
  nAppends,         \* number of appends made so far
  globalPayrolls,   \* data/salaryStore: shared payroll runs
  tabMounted,       \* SalaryPaymentsTab is mounted
  localPayrolls,    \* SalaryPaymentsTab: local copy of the runs
  selectedPayrollId, \* SalaryPaymentsTab: selected run
  nEdits,           \* number of paid toggles and amount edits made so far
  accEmployees,     \* accrual calculator: the employee list it reads
  accMonthlyTime,   \* accrual calculator: the time table it reads
  accCall,          \* accrual calculator: last call and its result
  distEmployee,     \* allocator: the employee being distributed
  distTimeData,     \* allocator: that employee's days per project
  distPayments,     \* allocator: that employee's salary payments, in half-rubles
  distResult,       \* allocator: the computed distribution (empty before the render)
  weekRanges,       \* period grid: the project ranges handed to generateWeeks
  weekNow,          \* period grid: the clock's date when the grid is computed
  weeksByRange,     \* period grid: result of the range-derived policy (empty before the call)
  weeksByHalf,      \* period grid: result of the fixed half-year policy (empty before the call)
  apiDb,            \* mock API: the in-memory collections of lib/api.ts
  apiRequest,       \* mock API: method and path of the last call
  apiResponse,      \* mock API: what the last call returned
  nApiCalls,        \* mock API: calls made so far
  viewClock,        \* distribution view: the clock's date when the view is mounted
  selectedMonth,    \* distribution view: the month chosen
  searchQuery,      \* distribution view: the text of the search box
  selectedDepartment, \* distribution view: the department chosen, or "all"
  lastOp            \* history: the last ledger save (or rejected save), the last
                    \* handler of the payroll tab, or the last calculation

createVars ==
  << createdTasks, isCreateTaskOpen, createTaskProjectId, selectedProjectId,
     accountingProjectId >>

ledgerVars ==
  << user, projects, createVars, taskStatus, globalPayments, globalIncomes, financeMounted, payments,
     incomes, dialogOpen, dialogMode, editCell, cardTaskId, cardTask,
     showPaymentForm, pendingPatch, nAppends >>

payrollVars ==
  << globalPayrolls, tabMounted, localPayrolls, selectedPayrollId, nEdits >>

accrualVars == << accEmployees, accMonthlyTime, accCall >>

distVars == << distEmployee, distTimeData, distPayments, distResult >>

weeksVars == << weekRanges, weekNow, weeksByRange, weeksByHalf >>

apiVars == << apiDb, apiRequest, apiResponse, nApiCalls >>

viewVars == << viewClock, selectedMonth, searchQuery, selectedDepartment >>

vars ==
  << ledgerVars, payrollVars, accrualVars, distVars, weeksVars, apiVars, viewVars, lastOp >>

NoCell == [projectId |-> Undefined, weekIndex |-> -1]

(***************************************************************************)
(* Ledger reads (pages/Finance)                                            *)
(***************************************************************************)
\* payments[projectId]?.[weekIndex] || []
CellOf(ledger, projectId, weekIndex) ==
  IF projectId \in DOMAIN ledger /\ weekIndex \in DOMAIN ledger[projectId]
  THEN ledger[projectId][weekIndex] ELSE <<>>

getCellTotal(projectId, weekIndex) == SumAmounts(CellOf(payments, projectId, weekIndex))

getIncomeCellTotal(projectId, weekIndex) == SumAmounts(CellOf(incomes, projectId, weekIndex))

BucketTotal(ledger, projectId) ==
  IF projectId \notin DOMAIN ledger THEN 0
  ELSE SumOver([w \in DOMAIN ledger[projectId] |-> SumAmounts(ledger[projectId][w])],
               DOMAIN ledger[projectId])

getTotalPaid(projectId) == BucketTotal(payments, projectId)

getTotalIncome(projectId) == BucketTotal(incomes, projectId)

\* variant of AppendToCell that forgets the spread of the existing entries:
\* [weekIndex]: [entry]
ReplaceCell(ledger, projectId, weekIndex, entry) ==
  [ledger EXCEPT ![projectId][weekIndex] = << entry >>]

\* { ...ledger, [projectId]: { ...ledger[projectId], [weekIndex]: [...existing, entry] } }
AppendToCell(ledger, projectId, weekIndex, entry) ==
  [ledger EXCEPT ![projectId][weekIndex] = Append(CellOf(ledger, projectId, weekIndex), entry)]

(***************************************************************************)
(* Forms                                                                   *)
(***************************************************************************)
SeqToSet(s) == {s[i] : i \in 1..Len(s)}

\* contents of the per-employee amount fields: the first MaxFilled fields hold
\* any text, the others are left empty
FormMaps(emps) ==
  LET first == {emps[i] : i \in 1..(IF Len(emps) < MaxFilled THEN Len(emps) ELSE MaxFilled)}
  IN {[e \in SeqToSet(emps) |-> IF e \in first THEN g[e] ELSE ""] :
        g \in [first -> AmountTexts]}

RECURSIVE MapAmounts(_, _)
\* emps.map(e => ({ id, amount: parseFloat(employeeAmounts[e.id] || "") || 0 }))
MapAmounts(emps, employeeAmounts) ==
  IF emps = <<>> THEN <<>>
  ELSE << EP(Head(emps), parseFloatOrZero(employeeAmounts[Head(emps)])) >>
         \o MapAmounts(Tail(emps), employeeAmounts)

RECURSIVE FilterPositive(_)
\* .filter(e => e.amount > 0)
FilterPositive(eps) ==
  IF eps = <<>> THEN <<>>
  ELSE (IF Head(eps).amount > 0 THEN << Head(eps) >> ELSE <<>>)
         \o FilterPositive(Tail(eps))

\* Object.values(employeeAmounts).reduce((s, v) => s + (parseFloat(v) || 0), 0)
computeTotalFromEmployees(employeeAmounts) ==
  SumOver([e \in DOMAIN employeeAmounts |-> parseFloatOrZero(employeeAmounts[e])],
          DOMAIN employeeAmounts)

\* task.accountingSubtype || undefined
ReasonOf(task) ==
  IF task.accountingSubtype = "" THEN Undefined ELSE task.accountingSubtype

(***************************************************************************)
(* AuthProvider and role gates                                             *)
(***************************************************************************)
\* AuthProvider.switchRole: demoUsers.find(u => u.role === role)
switchRole(role) ==
  /\ lastOp' = lastOp
  /\ role \in DOMAIN demoUsers
  /\ user' = role
  /\ UNCHANGED << taskStatus, globalPayments, globalIncomes, financeMounted, payments,
                  incomes, dialogOpen, dialogMode, editCell, cardTaskId, cardTask,
                  showPaymentForm, pendingPatch, nAppends >>
  /\ UNCHANGED << projects, createVars, payrollVars, accrualVars, distVars, weeksVars, apiVars, viewVars >>

\* Layout.currentRole
currentRole ==
  IF "admin" \in demoUsers[user] THEN "admin"
  ELSE IF "gip" \in demoUsers[user] THEN "gip"
  ELSE IF "accountant" \in demoUsers[user] THEN "accountant"
  ELSE "executor"

\* Finance: user?.roles?.includes("accountant")
isAccountant == "accountant" \in demoUsers[user]

isReadOnly == ~isAccountant

(***************************************************************************)
(* pages/Finance                                                           *)
(***************************************************************************)
\* mount: useState(globalPayments), useState(globalIncomes), dialog state reset
FinanceMount ==
  /\ lastOp' = lastOp
  /\ ~financeMounted
  /\ financeMounted' = TRUE
  /\ payments' = globalPayments
  /\ incomes' = globalIncomes
  /\ dialogOpen' = FALSE
  /\ dialogMode' = "payment"
  /\ editCell' = NoCell
  /\ UNCHANGED << user, taskStatus, globalPayments, globalIncomes, cardTaskId, cardTask,
                  showPaymentForm, pendingPatch, nAppends >>
  /\ isCreateTaskOpen' = FALSE
  /\ createTaskProjectId' = Undefined
  /\ selectedProjectId' = ""
  /\ accountingProjectId' = ""
  /\ UNCHANGED << projects, createdTasks, payrollVars, accrualVars, distVars, weeksVars, apiVars, viewVars >>

\* unmount (navigation away): the component state is dropped
FinanceUnmount ==
  /\ lastOp' = lastOp
  /\ financeMounted
  /\ financeMounted' = FALSE
  /\ payments' = EmptyLedger
  /\ incomes' = EmptyLedger
  /\ dialogOpen' = FALSE
  /\ dialogMode' = "payment"
  /\ editCell' = NoCell
  /\ UNCHANGED << user, taskStatus, globalPayments, globalIncomes, cardTaskId, cardTask,
                  showPaymentForm, pendingPatch, nAppends >>
  /\ isCreateTaskOpen' = FALSE
  /\ createTaskProjectId' = Undefined
  /\ selectedProjectId' = ""
  /\ accountingProjectId' = ""
  /\ UNCHANGED << projects, createdTasks, payrollVars, accrualVars, distVars, weeksVars, apiVars, viewVars >>

\* allTasks of the Finance page: GET /tasks, the fixture and the created tasks
allTasks ==
  [t \in TaskIds \cup DOMAIN createdTasks |->
     IF t \in DOMAIN createdTasks THEN createdTasks[t] ELSE mockTasks[t]]

\* activeProjects: the projects that get a row in the table
activeProjects ==
  {p \in DOMAIN projects : projects[p].status = "active" \/ projects[p].status = "completed"}

\* tasks without a project: each has a row of cells under "__no_project__"
nonProjectTasks ==
  {t \in DOMAIN allTasks :
     allTasks[t].taskType = "accounting" /\ allTasks[t].projectId = Undefined}

\* payment cell onClick: !isReadOnly && openPaymentDialog(projectId, wi), in
\* the rows of activeProjects.map and of the tasks without a project;
\* the cells of "__no_project__" are rendered once per task without a project
openPaymentDialog(projectId, weekIndex) ==
  /\ lastOp' = lastOp
  /\ financeMounted
  /\ ~dialogOpen
  /\ ~isCreateTaskOpen
  /\ ~isReadOnly
  /\ projectId \in activeProjects \/ projectId = NoProject
  /\ projectId = NoProject => nonProjectTasks # {}
  /\ editCell' = [projectId |-> projectId, weekIndex |-> weekIndex]
  /\ dialogMode' = "payment"
  /\ dialogOpen' = TRUE
  /\ UNCHANGED << user, taskStatus, globalPayments, globalIncomes, financeMounted,
                  payments, incomes, cardTaskId, cardTask, showPaymentForm,
                  pendingPatch, nAppends >>
  /\ UNCHANGED << projects, createVars, payrollVars, accrualVars, distVars, weeksVars, apiVars, viewVars >>

\* income cell onClick: !isReadOnly && openIncomeDialog(projectId, wi), in the
\* rows of activeProjects.map
openIncomeDialog(projectId, weekIndex) ==
  /\ lastOp' = lastOp
  /\ financeMounted
  /\ ~dialogOpen
  /\ ~isCreateTaskOpen
  /\ ~isReadOnly
  /\ projectId \in activeProjects
  /\ editCell' = [projectId |-> projectId, weekIndex |-> weekIndex]
  /\ dialogMode' = "income"
  /\ dialogOpen' = TRUE
  /\ UNCHANGED << user, taskStatus, globalPayments, globalIncomes, financeMounted,
                  payments, incomes, cardTaskId, cardTask, showPaymentForm,
                  pendingPatch, nAppends >>
  /\ UNCHANGED << projects, createVars, payrollVars, accrualVars, distVars, weeksVars, apiVars, viewVars >>

\* dialog "cancel": setDialogOpen(false); editCell is left as it is
cancelDialog ==
  /\ lastOp' = lastOp
  /\ financeMounted
  /\ dialogOpen
  /\ dialogOpen' = FALSE
  /\ UNCHANGED << user, taskStatus, globalPayments, globalIncomes, financeMounted,
                  payments, incomes, dialogMode, editCell, cardTaskId, cardTask,
                  showPaymentForm, pendingPatch, nAppends >>
  /\ UNCHANGED << projects, createVars, payrollVars, accrualVars, distVars, weeksVars, apiVars, viewVars >>

\* getProjectAccountantTasks(projectId): ids offered by the task select
getProjectAccountantTasks(projectId) ==
  IF projectId = NoProject
  THEN {t \in DOMAIN allTasks : allTasks[t].taskType = "accounting"
                                /\ allTasks[t].projectId = Undefined}
  ELSE {t \in DOMAIN allTasks : allTasks[t].projectId = projectId
                                /\ allTasks[t].taskType = "accounting"}

\* values the form field dialogTaskId can hold when the save button is clicked
DialogTaskChoices ==
  IF dialogMode = "income" THEN {""}
  ELSE {"", "none"} \cup getProjectAccountantTasks(editCell.projectId)

\* dialogTaskEmployees: selectedEmployeeIds of the selected task
dialogTaskEmployees(dialogTaskId) ==
  IF dialogTaskId \in DOMAIN allTasks THEN allTasks[dialogTaskId].selectedEmployeeIds
  ELSE <<>>

\* the next ledger built by saveEntry in income mode
SaveIncomeNext(dialogAmount, dialogTaskId) ==
  AppendToCell(incomes, editCell.projectId, editCell.weekIndex,
               Entry(parseFloatOrZero(dialogAmount),
                     IF dialogTaskId # "none" THEN dialogTaskId ELSE Undefined,
                     "income", FALSE, <<>>))

\* empPayments of saveEntry
SaveEmpPayments(dialogTaskId, employeeAmounts) ==
  FilterPositive(MapAmounts(dialogTaskEmployees(dialogTaskId), employeeAmounts))

\* totalAmount of saveEntry in payment mode
SaveTotalAmount(dialogTaskId, dialogAmount, employeeAmounts) ==
  IF dialogTaskEmployees(dialogTaskId) # <<>>
  THEN SumAmounts(SaveEmpPayments(dialogTaskId, employeeAmounts))
  ELSE parseFloatOrZero(dialogAmount)

\* the entry built by saveEntry in payment mode
SavePaymentEntry(dialogTaskId, dialogAmount, employeeAmounts) ==
  LET hasEmployees == dialogTaskEmployees(dialogTaskId) # <<>>
  IN Entry(SaveTotalAmount(dialogTaskId, dialogAmount, employeeAmounts),
           dialogTaskId,
           ReasonOf(allTasks[dialogTaskId]),
           hasEmployees,
           IF hasEmployees THEN SaveEmpPayments(dialogTaskId, employeeAmounts) ELSE <<>>)

\* the next ledger built by saveEntry in payment mode
SavePaymentNext(dialogTaskId, dialogAmount, employeeAmounts) ==
  AppendToCell(payments, editCell.projectId, editCell.weekIndex,
               SavePaymentEntry(dialogTaskId, dialogAmount, employeeAmounts))

\* variant of SaveRejected without the returns on totalAmount <= 0
SaveRejectedOnMissingTaskOnly(dialogTaskId, dialogAmount, employeeAmounts) ==
  \/ editCell = NoCell
  \/ dialogMode # "income" /\ (dialogTaskId = "" \/ dialogTaskId = "none")

\* variant of SaveRejected without the return on amount <= 0 of income mode
SaveRejectedInPaymentModeOnly(dialogTaskId, dialogAmount, employeeAmounts) ==
  \/ editCell = NoCell
  \/ dialogMode # "income" /\ (dialogTaskId = "" \/ dialogTaskId = "none")
  \/ dialogMode # "income" /\ dialogTaskId \in DOMAIN allTasks
       /\ SaveTotalAmount(dialogTaskId, dialogAmount, employeeAmounts) <= 0

\* saveEntry is rejected (early return) for these form contents
SaveRejected(dialogTaskId, dialogAmount, employeeAmounts) ==
  \/ editCell = NoCell
  \/ dialogMode = "income" /\ parseFloatOrZero(dialogAmount) <= 0
  \/ dialogMode # "income" /\ (dialogTaskId = "" \/ dialogTaskId = "none")
  \/ dialogMode # "income" /\ dialogTaskId \in DOMAIN allTasks
       /\ SaveTotalAmount(dialogTaskId, dialogAmount, employeeAmounts) <= 0

\* Finance.saveEntry, with the form contents at the time of the click
saveEntry(dialogTaskId, dialogAmount, employeeAmounts) ==
  /\ financeMounted
  /\ dialogOpen
  /\ nAppends < MaxAppends
  /\ lastOp' = IF SaveRejected(dialogTaskId, dialogAmount, employeeAmounts)
               THEN "saveEntry rejected" ELSE "saveEntry"
  /\ IF SaveRejected(dialogTaskId, dialogAmount, employeeAmounts)
     THEN UNCHANGED << payments, incomes, globalPayments, globalIncomes, dialogOpen,
                       editCell, nAppends >>
     ELSE /\ IF dialogMode = "income"
             THEN /\ incomes' = SaveIncomeNext(dialogAmount, dialogTaskId)
                  /\ globalIncomes' = incomes'
                  /\ UNCHANGED << payments, globalPayments >>
             ELSE /\ payments' = SavePaymentNext(dialogTaskId, dialogAmount, employeeAmounts)
                  /\ globalPayments' = payments'
                  /\ UNCHANGED << incomes, globalIncomes >>
          /\ dialogOpen' = FALSE
          /\ editCell' = NoCell
          /\ nAppends' = nAppends + 1
  /\ UNCHANGED << user, taskStatus, financeMounted, dialogMode, cardTaskId, cardTask,
                  showPaymentForm, pendingPatch >>
  /\ UNCHANGED << projects, createVars, payrollVars, accrualVars, distVars, weeksVars, apiVars, viewVars >>

(***************************************************************************)
(* tasks/CreateTaskDialog, opened from the Finance page                    *)
(***************************************************************************)
\* number of tasks created in one behaviour
MaxCreated == 1

\* ids of accountingSubtypeOptions
accountingSubtypeOptions == {"salary", "subcontractors", "extra_costs", "other", "none"}

\* Finance: user?.roles?.some(r => ["admin", "gip"].includes(r))
isAdminOrGip == demoUsers[user] \cap {"admin", "gip"} # {}

\* "+" of a project row (handleCreateTaskForProject) or the header button
\* (projectId undefined); the dialog is rendered with forceTaskType
\* "accounting".  Its effects then run: for a projectId, selectedProjectId and
\* accountingProjectId are set to it, and when selectedProjectId changed by
\* that, the reset effect clears accountingProjectId again.
openCreateTask(projectId) ==
  /\ lastOp' = lastOp
  /\ financeMounted
  /\ ~dialogOpen
  /\ ~isCreateTaskOpen
  /\ isAccountant \/ isAdminOrGip
  /\ projectId \in activeProjects \/ projectId = Undefined
  /\ createTaskProjectId' = projectId
  /\ isCreateTaskOpen' = TRUE
  /\ IF projectId # Undefined
     THEN /\ selectedProjectId' = projectId
          /\ accountingProjectId' = IF selectedProjectId = projectId THEN projectId ELSE ""
     ELSE UNCHANGED << selectedProjectId, accountingProjectId >>
  /\ UNCHANGED << user, projects, createdTasks, taskStatus, globalPayments, globalIncomes,
                  financeMounted, payments, incomes, dialogOpen, dialogMode, editCell,
                  cardTaskId, cardTask, showPaymentForm, pendingPatch, nAppends >>
  /\ UNCHANGED << payrollVars, accrualVars, distVars, weeksVars, apiVars, viewVars >>

\* resetForm: selectedProjectId is cleared only when no projectId was passed
ResetSelectedProjectId ==
  IF createTaskProjectId = Undefined THEN "" ELSE selectedProjectId

\* handleClose(false): resetForm(); onOpenChange(false)
closeCreateTask ==
  /\ lastOp' = lastOp
  /\ isCreateTaskOpen
  /\ isCreateTaskOpen' = FALSE
  /\ selectedProjectId' = ResetSelectedProjectId
  /\ accountingProjectId' = ""
  /\ UNCHANGED << user, projects, createdTasks, createTaskProjectId, taskStatus,
                  globalPayments, globalIncomes, financeMounted, payments, incomes,
                  dialogOpen, dialogMode, editCell, cardTaskId, cardTask,
                  showPaymentForm, pendingPatch, nAppends >>
  /\ UNCHANGED << payrollVars, accrualVars, distVars, weeksVars, apiVars, viewVars >>

\* the project select is shown only when no projectId was passed; otherwise the
\* payload carries accountingProjectId as the effects left it
PayloadProjectId(chosenProjectId) ==
  LET p == IF createTaskProjectId = Undefined THEN chosenProjectId ELSE accountingProjectId
  IN IF p = "" THEN Undefined ELSE p

\* selections the employee pickers allow: employees for "salary", the project's
\* subcontractors for "subcontractors" with a project, nothing otherwise
EmployeeSelections(accountingSubtype, chosenProjectId) ==
  IF accountingSubtype = "salary" THEN { <<>>, << "user-2" >> }
  ELSE IF accountingSubtype = "subcontractors"
          /\ PayloadProjectId(chosenProjectId) # Undefined
       THEN { <<>>, << "psub-3" >> }
  ELSE { <<>> }

\* CreateTaskDialog.handleCreate with taskType "accounting": early returns on an
\* empty title or a missing accountant; POST /tasks stores the payload under a
\* new id; resetForm(); onOpenChange(false)
handleCreate(title, assigneeId, accountingSubtype, chosenProjectId, selectedEmployeeIds) ==
  /\ isCreateTaskOpen
  /\ Cardinality(DOMAIN createdTasks) < MaxCreated
  /\ lastOp' = lastOp
  /\ IF title = "" \/ assigneeId = ""
     THEN UNCHANGED createVars
     ELSE /\ \E id \in NewTaskIds \ DOMAIN createdTasks :
               createdTasks' =
                 [t \in DOMAIN createdTasks \cup {id} |->
                    IF t = id
                    THEN [id |-> id, status |-> Undefined, taskType |-> "accounting",
                          accountingSubtype |-> accountingSubtype,
                          projectId |-> PayloadProjectId(chosenProjectId),
                          selectedEmployeeIds |-> selectedEmployeeIds]
                    ELSE createdTasks[t]]
          /\ isCreateTaskOpen' = FALSE
          /\ selectedProjectId' = ResetSelectedProjectId
          /\ accountingProjectId' = ""
          /\ UNCHANGED createTaskProjectId
  /\ UNCHANGED << user, projects, taskStatus, globalPayments, globalIncomes,
                  financeMounted, payments, incomes, dialogOpen, dialogMode, editCell,
                  cardTaskId, cardTask, showPaymentForm, pendingPatch, nAppends >>
  /\ UNCHANGED << payrollVars, accrualVars, distVars, weeksVars, apiVars, viewVars >>

(***************************************************************************)
(* Reconciliation columns of the Finance table                             *)
(***************************************************************************)
\* variant of RatioClass whose green tier starts at one half
RatioClassFromHalf(num, den) ==
  IF 2 * num >= den THEN "green" ELSE IF 10 * num >= den THEN "yellow" ELSE "red"

\* variant of RatioClass whose yellow tier starts above one tenth
RatioClassAboveTenth(num, den) ==
  IF 2 * num > den THEN "green" ELSE IF 10 * num > den THEN "yellow" ELSE "red"

\* num / den > 0.5 ? green : num / den >= 0.1 ? yellow : red, for den > 0.
\* For integers below 2^53 the double quotient compares with 0.5 and with the
\* double 0.1 as the exact quotient compares with 1/2 and 1/10.
RatioClass(num, den) ==
  IF 2 * num > den THEN "green" ELSE IF 10 * num >= den THEN "yellow" ELSE "red"

\* remaining = project.budget - paid, of one project row
remaining(projectId) == projects[projectId].budget - getTotalPaid(projectId)

\* colour of the remaining cell of one project row; "" when budget <= 0
remainingColor(projectId) ==
  IF projects[projectId].budget > 0
  THEN RatioClass(remaining(projectId), projects[projectId].budget)
  ELSE ""

\* the totals row
totalBudget == SumOver([p \in activeProjects |-> projects[p].budget], activeProjects)

\* variant of totalPaidAll without the "__no_project__" bucket
totalPaidProjectsOnly ==
  SumOver([p \in activeProjects |-> getTotalPaid(p)], activeProjects)

totalPaidAll ==
  SumOver([p \in activeProjects |-> getTotalPaid(p)], activeProjects) + getTotalPaid(NoProject)

totalIncomeAll ==
  SumOver([p \in activeProjects |-> getTotalIncome(p)], activeProjects)
    + getTotalIncome(NoProject)

totalRemaining == totalBudget - totalPaidAll

\* remainingPct = totalBudget > 0 ? totalRemaining / totalBudget : 1, classified
totalRemainingColor ==
  IF totalBudget > 0 THEN RatioClass(totalRemaining, totalBudget) ELSE "green"

\* variant of getProjectSubcontractorPaid without the filter on the reason
SubcontractorPaidAnyReason(projectId, subcontractorId) ==
  BucketTotal(globalPayments, projectId)

\* getProjectSubcontractorPaid(projectId, _subcontractorId): reads the shared
\* ledger; Object.values(p).flat().filter(v => v.reason === "subcontract")
\* summed.  The second argument is not used.
getProjectSubcontractorPaid(projectId, subcontractorId) ==
  IF projectId \notin DOMAIN globalPayments THEN 0
  ELSE LET p == globalPayments[projectId]
       IN SumOver([w \in DOMAIN p |->
                    SumAmounts(SelectSeq(p[w], LAMBDA v : v.reason = "subcontract"))],
                  DOMAIN p)

(***************************************************************************)
(* tasks/TaskDetailsDialog (the task card)                                 *)
(***************************************************************************)
\* the card is opened on a task; useQuery(["task", taskId]) fetches it
openCard(taskId) ==
  /\ lastOp' = lastOp
  /\ cardTaskId = Undefined
  /\ cardTaskId' = taskId
  /\ cardTask' = taskStatus[taskId]
  /\ showPaymentForm' = FALSE
  /\ UNCHANGED << user, taskStatus, globalPayments, globalIncomes, financeMounted,
                  payments, incomes, dialogOpen, dialogMode, editCell, pendingPatch,
                  nAppends >>
  /\ UNCHANGED << projects, createVars, payrollVars, accrualVars, distVars, weeksVars, apiVars, viewVars >>

\* Dialog onOpenChange(false): the form is reset and the card closes
closeCard ==
  /\ lastOp' = lastOp
  /\ cardTaskId # Undefined
  /\ cardTaskId' = Undefined
  /\ cardTask' = Undefined
  /\ showPaymentForm' = FALSE
  /\ UNCHANGED << user, taskStatus, globalPayments, globalIncomes, financeMounted,
                  payments, incomes, dialogOpen, dialogMode, editCell, pendingPatch,
                  nAppends >>
  /\ UNCHANGED << projects, createVars, payrollVars, accrualVars, distVars, weeksVars, apiVars, viewVars >>

\* isAccountant && isAccountingTask && task?.status !== "done"
canEnterPayment ==
  /\ cardTaskId # Undefined
  /\ (currentRole = "accountant" \/ "accountant" \in demoUsers[user])
  /\ mockTasks[cardTaskId].taskType = "accounting"
  /\ cardTask # "done"

\* button "enter payment": setShowPaymentForm(true)
openPaymentForm ==
  /\ lastOp' = lastOp
  /\ canEnterPayment
  /\ ~showPaymentForm
  /\ showPaymentForm' = TRUE
  /\ UNCHANGED << user, taskStatus, globalPayments, globalIncomes, financeMounted,
                  payments, incomes, dialogOpen, dialogMode, editCell, cardTaskId,
                  cardTask, pendingPatch, nAppends >>
  /\ UNCHANGED << projects, createVars, payrollVars, accrualVars, distVars, weeksVars, apiVars, viewVars >>

\* button "cancel" of the payment form: setShowPaymentForm(false)
cancelPaymentForm ==
  /\ lastOp' = lastOp
  /\ canEnterPayment
  /\ showPaymentForm
  /\ showPaymentForm' = FALSE
  /\ UNCHANGED << user, taskStatus, globalPayments, globalIncomes, financeMounted,
                  payments, incomes, dialogOpen, dialogMode, editCell, cardTaskId,
                  cardTask, pendingPatch, nAppends >>
  /\ UNCHANGED << projects, createVars, payrollVars, accrualVars, distVars, weeksVars, apiVars, viewVars >>

\* taskEmployees of the card
taskEmployees == mockTasks[cardTaskId].selectedEmployeeIds

\* computeTotal
computeTotal(singleAmount, employeeAmounts) ==
  IF taskEmployees # <<>>
  THEN computeTotalFromEmployees(employeeAmounts)
  ELSE parseFloatOrZero(singleAmount)

\* the entry built by handleSavePayment
CardEntry(singleAmount, employeeAmounts) ==
  LET hasEmployees == taskEmployees # <<>>
  IN Entry(computeTotal(singleAmount, employeeAmounts),
           cardTaskId,
           ReasonOf(mockTasks[cardTaskId]),
           hasEmployees,
           IF hasEmployees
           THEN FilterPositive(MapAmounts(taskEmployees, employeeAmounts))
           ELSE <<>>)

\* task?.projectId || "__no_project__"
paymentKey ==
  IF mockTasks[cardTaskId].projectId = Undefined
  THEN NoProject ELSE mockTasks[cardTaskId].projectId

\* handleSavePayment up to its await: the entry is appended to the global
\* ledger at the current week and the PATCH request is sent
handleSavePayment(singleAmount, employeeAmounts, weekIndex) ==
  /\ canEnterPayment
  /\ showPaymentForm
  /\ nAppends < MaxAppends
  /\ lastOp' = IF computeTotal(singleAmount, employeeAmounts) <= 0
               THEN "handleSavePayment rejected" ELSE "handleSavePayment"
  /\ IF computeTotal(singleAmount, employeeAmounts) <= 0
     THEN UNCHANGED << globalPayments, pendingPatch, nAppends >>
     ELSE /\ globalPayments' =
               AppendToCell(globalPayments, paymentKey, weekIndex,
                            CardEntry(singleAmount, employeeAmounts))
          /\ pendingPatch' = [pendingPatch EXCEPT ![cardTaskId] = @ + 1]
          /\ nAppends' = nAppends + 1
  /\ UNCHANGED << user, taskStatus, globalIncomes, financeMounted, payments, incomes,
                  dialogOpen, dialogMode, editCell, cardTaskId, cardTask,
                  showPaymentForm >>
  /\ UNCHANGED << projects, createVars, payrollVars, accrualVars, distVars, weeksVars, apiVars, viewVars >>

\* the PATCH is applied by the mock API and handleSavePayment resumes:
\* the form is reset and the card is closed
patchDone(taskId) ==
  /\ lastOp' = lastOp
  /\ pendingPatch[taskId] > 0
  /\ pendingPatch' = [pendingPatch EXCEPT ![taskId] = @ - 1]
  /\ taskStatus' = [taskStatus EXCEPT ![taskId] = "done"]
  /\ cardTaskId' = Undefined
  /\ cardTask' = Undefined
  /\ showPaymentForm' = FALSE
  /\ UNCHANGED << user, globalPayments, globalIncomes, financeMounted, payments,
                  incomes, dialogOpen, dialogMode, editCell, nAppends >>
  /\ UNCHANGED << projects, createVars, payrollVars, accrualVars, distVars, weeksVars, apiVars, viewVars >>

(***************************************************************************)
(* Employees, time records and the accrual calculator (data/salaryStore)   *)
(***************************************************************************)
\* a number field that may be null
Num(n) == [null |-> FALSE, val |-> n]
NullNum == [null |-> TRUE, val |-> 0]

\* JavaScript truthiness of a nullable number:  !!x
Truthy(x) == ~x.null /\ x.val # 0

\* x || 0
OrZero(x) == IF Truthy(x) THEN x.val ELSE 0

Employee(id, roles, dailyRate, contractRate) ==
  [id |-> id, roles |-> roles, dailyRate |-> dailyRate, contractRate |-> contractRate]

mockEmployees ==
  << Employee("user-1", {"admin"},      Num(5000), NullNum),
     Employee("user-2", {"gip"},        Num(4500), NullNum),
     Employee("user-3", {"executor"},   Num(3500), NullNum),
     Employee("user-4", {"executor"},   Num(3500), NullNum),
     Employee("user-5", {"accountant"}, Num(3000), NullNum),
     Employee("user-6", {"executor"},   Num(0),    Num(150000)),
     Employee("user-7", {"executor"},   Num(3200), NullNum),
     Employee("user-8", {"gip"},        Num(4000), NullNum) >>

PD(projectId, days) == [projectId |-> projectId, days |-> days]

\* days per employee, month and project, in the order of Object.entries
demoMonthlyTime ==
  [e \in {"user-1", "user-2", "user-3", "user-4", "user-6", "user-7", "user-8"} |->
    [m \in {"2026-01", "2026-02"} |->
      CASE e = "user-1" /\ m = "2026-01" -> << PD("proj-1", 12), PD("proj-2", 4), PD("proj-3", 2) >>
        [] e = "user-1" /\ m = "2026-02" -> << PD("proj-1", 14), PD("proj-2", 5), PD("proj-3", 3) >>
        [] e = "user-2" /\ m = "2026-01" -> << PD("proj-1", 8), PD("proj-3", 6) >>
        [] e = "user-2" /\ m = "2026-02" -> << PD("proj-1", 10), PD("proj-3", 8) >>
        [] e = "user-3" /\ m = "2026-01" -> << PD("proj-1", 10), PD("proj-2", 6) >>
        [] e = "user-3" /\ m = "2026-02" -> << PD("proj-1", 12), PD("proj-2", 8) >>
        [] e = "user-4" /\ m = "2026-01" -> << PD("proj-2", 7), PD("proj-4", 5) >>
        [] e = "user-4" /\ m = "2026-02" -> << PD("proj-2", 9), PD("proj-4", 6) >>
        [] e = "user-6" /\ m = "2026-01" -> << PD("proj-1", 0) >>
        [] e = "user-6" /\ m = "2026-02" -> << PD("proj-1", 0) >>
        [] e = "user-7" /\ m = "2026-01" -> << PD("proj-1", 5), PD("proj-2", 6), PD("proj-4", 4) >>
        [] e = "user-7" /\ m = "2026-02" -> << PD("proj-1", 6), PD("proj-2", 7), PD("proj-4", 5) >>
        [] e = "user-8" /\ m = "2026-01" -> << PD("proj-3", 8), PD("proj-4", 7) >>
        [] e = "user-8" /\ m = "2026-02" -> << PD("proj-3", 10), PD("proj-4", 8) >>]]

\* variant of SumDays that reads the first project only
FirstDays(timeData) == IF timeData = <<>> THEN 0 ELSE Head(timeData).days

RECURSIVE SumDays(_)
\* Object.values(timeData).reduce((s, d) => s + d, 0)
SumDays(timeData) ==
  IF timeData = <<>> THEN 0 ELSE Head(timeData).days + SumDays(Tail(timeData))

\* mockEmployees.find(e => e.id === employeeId): index of the first match, 0 if none
FindEmployee(emps, employeeId) ==
  IF \E i \in 1..Len(emps) : emps[i].id = employeeId
  THEN CHOOSE i \in 1..Len(emps) :
         /\ emps[i].id = employeeId
         /\ \A j \in 1..(i - 1) : emps[j].id # employeeId
  ELSE 0

\* demoMonthlyTime[employeeId]?.[month] || {} : the recorded days, project by project
TimeDataOf(time, employeeId, month) ==
  IF employeeId \in DOMAIN time /\ month \in DOMAIN time[employeeId]
  THEN time[employeeId][month] ELSE <<>>

\* variant of AccruedFrom without the contract-rate branch
AccruedDailyOnly(emps, time, employeeId, month) ==
  LET i == FindEmployee(emps, employeeId) IN
  IF i = 0 \/ "accountant" \in emps[i].roles THEN 0
  ELSE SumDays(TimeDataOf(time, employeeId, month)) * OrZero(emps[i].dailyRate)

\* variant of AccruedFrom without the accountant exclusion
AccruedAnyRole(emps, time, employeeId, month) ==
  LET i == FindEmployee(emps, employeeId) IN
  IF i = 0 THEN 0
  ELSE IF Truthy(emps[i].contractRate) THEN OrZero(emps[i].contractRate)
  ELSE SumDays(TimeDataOf(time, employeeId, month)) * OrZero(emps[i].dailyRate)

\* getEmployeeAccrued over a given employee list and time table
AccruedFrom(emps, time, employeeId, month) ==
  LET i == FindEmployee(emps, employeeId) IN
  IF i = 0 \/ "accountant" \in emps[i].roles THEN 0
  ELSE IF Truthy(emps[i].contractRate) THEN OrZero(emps[i].contractRate)
  ELSE SumDays(TimeDataOf(time, employeeId, month)) * OrZero(emps[i].dailyRate)

\* Math.round for a half-integer given as its double: round(h / 2)
RoundHalf(h) == (h + 1) \div 2

(***************************************************************************)
(* Payroll store (data/salaryStore) and SalaryPaymentsTab                  *)
(***************************************************************************)
Line(employeeId, amount, paid) == [employeeId |-> employeeId, amount |-> amount, paid |-> paid]

RECURSIVE SelectSeqBy(_, _)
\* Array.prototype.filter with the predicate given as a set of accepted values
SelectSeqBy(s, ok) ==
  IF s = <<>> THEN <<>>
  ELSE (IF Head(s) \in ok THEN << Head(s) >> ELSE <<>>) \o SelectSeqBy(Tail(s), ok)

\* mockEmployees.filter(e => !e.roles.includes("accountant"))
nonAccountants ==
  SelectSeqBy(mockEmployees,
              {mockEmployees[i] : i \in {j \in 1..Len(mockEmployees) :
                                          "accountant" \notin mockEmployees[j].roles}})

\* the lines of a seeded run: one per non-accountant, lines with amount <= 0 dropped
SeedLines(month, kind, paid) ==
  LET line(emp) ==
        LET accrued == AccruedFrom(mockEmployees, demoMonthlyTime, emp.id, month)
            advance == RoundHalf(accrued)
        IN Line(emp.id, IF kind = "advance" THEN advance ELSE accrued - advance, paid)
      all == [i \in 1..Len(nonAccountants) |-> line(nonAccountants[i])]
  IN SelectSeqBy(all, {all[i] : i \in {j \in 1..Len(all) : all[j].amount > 0}})

buildInitialPayrolls ==
  << [id |-> "payroll-2026-01-20", date |-> "2026-01-20", type |-> "advance",
      processed |-> TRUE, employees |-> SeedLines("2026-01", "advance", TRUE)],
     [id |-> "payroll-2026-02-05", date |-> "2026-02-05", type |-> "salary",
      processed |-> TRUE, employees |-> SeedLines("2026-01", "salary", TRUE)],
     [id |-> "payroll-2026-02-20", date |-> "2026-02-20", type |-> "advance",
      processed |-> FALSE, employees |-> SeedLines("2026-02", "advance", FALSE)] >>

\* number of paid toggles and amount edits explored in one behaviour
MaxEdits == 3

PayrollIds(runs) == {runs[i].id : i \in 1..Len(runs)}

\* payrolls.find(p => !p.processed) || payrolls[payrolls.length - 1], then ?.id || ""
defaultPayrollId(runs) ==
  IF runs = <<>> THEN ""
  ELSE IF \E i \in 1..Len(runs) : ~runs[i].processed
       THEN runs[CHOOSE i \in 1..Len(runs) :
                   ~runs[i].processed /\ \A j \in 1..(i - 1) : runs[j].processed].id
       ELSE runs[Len(runs)].id

\* localPayrolls.find(p => p.id === selectedPayrollId): index, 0 if none
selectedPayroll ==
  IF \E i \in 1..Len(localPayrolls) : localPayrolls[i].id = selectedPayrollId
  THEN CHOOSE i \in 1..Len(localPayrolls) :
         /\ localPayrolls[i].id = selectedPayrollId
         /\ \A j \in 1..(i - 1) : localPayrolls[j].id # selectedPayrollId
  ELSE 0

\* selectedPayroll?.processed || false
isProcessed == selectedPayroll # 0 /\ localPayrolls[selectedPayroll].processed

\* selectedPayroll?.employees.every(e => e.paid) || false
allChecked ==
  /\ selectedPayroll # 0
  /\ \A k \in 1..Len(localPayrolls[selectedPayroll].employees) :
       localPayrolls[selectedPayroll].employees[k].paid

\* prev.map(p => p.id === selectedPayrollId ? { ...p, employees: mapped } : p),
\* where mapped[i] is p.employees.map(...) for the run at index i
MapSelectedLines(runs, mapped) ==
  [i \in 1..Len(runs) |->
    IF runs[i].id = selectedPayrollId
    THEN [runs[i] EXCEPT !.employees = mapped[i]]
    ELSE runs[i]]

\* SalaryPaymentsTab mount: useState(defaultPayroll?.id || ""), useState(payrolls)
TabMount ==
  /\ lastOp' = "TabMount"
  /\ ~tabMounted
  /\ tabMounted' = TRUE
  /\ localPayrolls' = globalPayrolls
  /\ selectedPayrollId' = defaultPayrollId(globalPayrolls)
  /\ UNCHANGED << globalPayrolls, nEdits >>
  /\ UNCHANGED << ledgerVars, accrualVars, distVars, weeksVars, apiVars, viewVars >>

\* unmount: the component state is dropped
TabUnmount ==
  /\ lastOp' = "TabUnmount"
  /\ tabMounted
  /\ tabMounted' = FALSE
  /\ localPayrolls' = <<>>
  /\ selectedPayrollId' = ""
  /\ UNCHANGED << globalPayrolls, nEdits >>
  /\ UNCHANGED << ledgerVars, accrualVars, distVars, weeksVars, apiVars, viewVars >>

\* Select onValueChange: setSelectedPayrollId
selectPayroll(id) ==
  /\ lastOp' = "selectPayroll"
  /\ tabMounted
  /\ id \in PayrollIds(localPayrolls)
  /\ selectedPayrollId' = id
  /\ UNCHANGED << globalPayrolls, tabMounted, localPayrolls, nEdits >>
  /\ UNCHANGED << ledgerVars, accrualVars, distVars, weeksVars, apiVars, viewVars >>

\* variant of ToggleEmployeeRuns without the isProcessed early return
ToggleEmployeeRunsUnguarded(empId) ==
  LET f(e) == IF e.employeeId = empId THEN [e EXCEPT !.paid = ~e.paid] ELSE e
  IN MapSelectedLines(localPayrolls,
       [i \in 1..Len(localPayrolls) |->
          [k \in 1..Len(localPayrolls[i].employees) |-> f(localPayrolls[i].employees[k])]])

\* the runs after toggleEmployee(empId)
ToggleEmployeeRuns(empId) ==
  IF isProcessed THEN localPayrolls
  ELSE LET f(e) == IF e.employeeId = empId THEN [e EXCEPT !.paid = ~e.paid] ELSE e
       IN MapSelectedLines(localPayrolls,
            [i \in 1..Len(localPayrolls) |->
               [k \in 1..Len(localPayrolls[i].employees) |->
                  f(localPayrolls[i].employees[k])]])

\* variant of toggleEmployee that writes the toggled runs through to the store
toggleEmployeeWritingThrough(empId) ==
  /\ lastOp' = "toggleEmployee"
  /\ tabMounted
  /\ nEdits < MaxEdits
  /\ nEdits' = nEdits + 1
  /\ localPayrolls' = ToggleEmployeeRuns(empId)
  /\ globalPayrolls' = localPayrolls'
  /\ UNCHANGED << tabMounted, selectedPayrollId >>
  /\ UNCHANGED << ledgerVars, accrualVars, distVars, weeksVars, apiVars, viewVars >>

toggleEmployee(empId) ==
  /\ lastOp' = "toggleEmployee"
  /\ tabMounted
  /\ nEdits < MaxEdits
  /\ nEdits' = nEdits + 1
  /\ localPayrolls' = ToggleEmployeeRuns(empId)
  /\ UNCHANGED << globalPayrolls, tabMounted, selectedPayrollId >>
  /\ UNCHANGED << ledgerVars, accrualVars, distVars, weeksVars, apiVars, viewVars >>

\* the runs after toggleAll
ToggleAllRuns ==
  IF isProcessed THEN localPayrolls
  ELSE LET newPaid == ~allChecked
           f(e) == [e EXCEPT !.paid = newPaid]
       IN MapSelectedLines(localPayrolls,
            [i \in 1..Len(localPayrolls) |->
               [k \in 1..Len(localPayrolls[i].employees) |->
                  f(localPayrolls[i].employees[k])]])

toggleAll ==
  /\ lastOp' = "toggleAll"
  /\ tabMounted
  /\ nEdits < MaxEdits
  /\ nEdits' = nEdits + 1
  /\ localPayrolls' = ToggleAllRuns
  /\ UNCHANGED << globalPayrolls, tabMounted, selectedPayrollId >>
  /\ UNCHANGED << ledgerVars, accrualVars, distVars, weeksVars, apiVars, viewVars >>

\* the runs after updateAmount(empId, value)
UpdateAmountRuns(empId, value) ==
  IF isProcessed THEN localPayrolls
  ELSE LET numVal == parseFloatOrZero(value)
           f(e) == IF e.employeeId = empId THEN [e EXCEPT !.amount = numVal] ELSE e
       IN MapSelectedLines(localPayrolls,
            [i \in 1..Len(localPayrolls) |->
               [k \in 1..Len(localPayrolls[i].employees) |->
                  f(localPayrolls[i].employees[k])]])

updateAmount(empId, value) ==
  /\ lastOp' = "updateAmount"
  /\ tabMounted
  /\ nEdits < MaxEdits
  /\ nEdits' = nEdits + 1
  /\ localPayrolls' = UpdateAmountRuns(empId, value)
  /\ UNCHANGED << globalPayrolls, tabMounted, selectedPayrollId >>
  /\ UNCHANGED << ledgerVars, accrualVars, distVars, weeksVars, apiVars, viewVars >>

\* variant of ProcessedRuns that writes the comparison into every run:
\* { ...p, processed: p.id === selectedPayrollId }
ProcessedOnlySelected(runs) ==
  [i \in 1..Len(runs) |-> [runs[i] EXCEPT !.processed = (runs[i].id = selectedPayrollId)]]

\* variant of ProcessedRuns that flips the flag: { ...p, processed: !p.processed }
ProcessedToggled(runs) ==
  [i \in 1..Len(runs) |->
    IF runs[i].id = selectedPayrollId THEN [runs[i] EXCEPT !.processed = ~@]
    ELSE runs[i]]

\* localPayrolls.map(p => p.id === selectedPayrollId ? { ...p, processed: true } : p)
ProcessedRuns(runs) ==
  [i \in 1..Len(runs) |->
    IF runs[i].id = selectedPayrollId THEN [runs[i] EXCEPT !.processed = TRUE]
    ELSE runs[i]]

processPayroll ==
  /\ lastOp' = IF lastOp \in {"processPayroll", "processPayroll again"}
               THEN "processPayroll again" ELSE "processPayroll"
  /\ tabMounted
  /\ localPayrolls' = ProcessedRuns(localPayrolls)
  /\ globalPayrolls' = localPayrolls'
  /\ UNCHANGED << tabMounted, selectedPayrollId, nEdits >>
  /\ UNCHANGED << ledgerVars, accrualVars, distVars, weeksVars, apiVars, viewVars >>

\* p.employees.filter(e => e.paid).reduce((s, e) => s + e.amount, 0)
PaidTotal(lines) == SumAmounts(SelectSeq(lines, LAMBDA e : e.paid))

RECURSIVE SumPaidTotals(_)
\* runs.reduce((sum, p) => sum + PaidTotal(p.employees), 0)
SumPaidTotals(runs) ==
  IF runs = <<>> THEN 0 ELSE PaidTotal(Head(runs).employees) + SumPaidTotals(Tail(runs))

\* variant of getSalaryPaidOnDate whose filter leaves out the processed flag
getSalaryPaidOfAnyRun(date) ==
  SumPaidTotals(SelectSeq(globalPayrolls, LAMBDA p : p.date = date))

\* globalPayrolls.filter(p => p.date === date && p.processed).reduce(...)
getSalaryPaidOnDate(date) ==
  SumPaidTotals(SelectSeq(globalPayrolls, LAMBDA p : p.date = date /\ p.processed))

\* the dates asked about: the dates of the seeded runs and a date without a run
SalaryDates == {"2026-01-20", "2026-02-05", "2026-02-20", "2026-03-05"}

(***************************************************************************)
(* Accrual calculator under arbitrary employee and time data               *)
(***************************************************************************)
\* largest number of days recorded for one project in the explored time tables
MaxDays == 7

AccRoleSets == { {"executor"}, {"accountant"}, {"gip", "accountant"} }
AccDailyRates == { NullNum, Num(0), Num(1000) }
AccContractRates == { NullNum, Num(0), Num(150000) }
AccMonths == {"2026-01", "2026-03"}

\* time records of one employee-month: none, one project or two projects
AccTimeRecords ==
  { <<>> } \cup { << PD("projA", a) >> : a \in 0..MaxDays }
           \cup { << PD("projA", a), PD("projB", b) >> : a \in 0..MaxDays, b \in {0, 3} }

\* time tables: no record for the employee, records for January only, or
\* records filed under an id that is not in the employee list
AccTimeTables ==
  { [e \in {} |-> <<>>] } \cup
  { [e \in {"e1"} |-> [m \in {"2026-01"} |-> r]] : r \in AccTimeRecords } \cup
  { [e \in {"e9"} |-> [m \in {"2026-01"} |-> << PD("projA", 5) >>]] }

\* getEmployeeAccrued(employeeId, month) on the data under test
getEmployeeAccrued(employeeId, month) ==
  AccruedFrom(accEmployees, accMonthlyTime, employeeId, month)

\* one call of getEmployeeAccrued
CallAccrued(employeeId, month) ==
  /\ lastOp' = "getEmployeeAccrued"
  /\ accCall' = << [employeeId |-> employeeId, month |-> month,
                    result |-> getEmployeeAccrued(employeeId, month)] >>
  /\ UNCHANGED << accEmployees, accMonthlyTime >>
  /\ UNCHANGED << ledgerVars, payrollVars, distVars, weeksVars, apiVars, viewVars >>

(***************************************************************************)
(* Proportional allocator (finance/SalaryDistributionTab)                  *)
(***************************************************************************)
\* salary payments of one employee, in half-rubles
\* (0.5, 1, 1.5, 3, 3.5, 45, 100, 100.5, 3000, 10000 rubles)
DistPayments == {1, 2, 3, 6, 7, 90, 200, 201, 6000, 20000}

DistEmployees ==
  { Employee("e1", r, d, c) :
      r \in { {"executor"}, {"accountant"} },
      d \in { Num(0), Num(1000) },
      c \in { NullNum, Num(150000) } }

\* demoTimeDistribution[emp.id] || {} : days on up to three projects
DistTimeRecords ==
  { <<>> } \cup { << PD("projA", a) >> : a \in 0..MaxDays }
           \cup { << PD("projA", a), PD("projB", b) >> : a, b \in 0..MaxDays }
           \cup { << PD("projA", a), PD("projB", b), PD("projC", c) >> :
                    a, b, c \in 0..MaxDays }

\* a proportion days / totalDays kept as a fraction
Frac(num, den) == [num |-> num, den |-> den]

\* variant of proportion that attributes every payment in full to every project
proportionAlwaysOne(isContract, days, totalDays) == Frac(1, 1)

\* variant of proportion that divides by the working days of a month
proportionOfMonth(isContract, days, totalDays) ==
  IF isContract THEN Frac(1, 1) ELSE Frac(days, 22)

\* isContract ? 1 : (totalDays > 0 ? days / totalDays : 0)
proportion(isContract, days, totalDays) ==
  IF isContract THEN Frac(1, 1)
  ELSE IF totalDays > 0 THEN Frac(days, totalDays)
  ELSE Frac(0, 1)

RECURSIVE PowMod(_, _)
\* 2^e mod m
PowMod(e, m) == IF e = 0 THEN 1 % m ELSE (2 * PowMod(e - 1, m)) % m

RECURSIVE Pow2(_)
Pow2(e) == IF e = 0 THEN 1 ELSE 2 * Pow2(e - 1)

RECURSIVE Log2Floor(_)
\* binary exponent of a number k >= 1
Log2Floor(k) == IF k < 2 THEN 0 ELSE 1 + Log2Floor(k \div 2)

RECURSIVE QuotientExponent(_, _, _)
\* the least n >= from with days * 2^n >= totalDays: days / totalDays lies in
\* [2^-n, 2^-n+1)
QuotientExponent(days, totalDays, from) ==
  IF days * Pow2(from) >= totalDays THEN from
  ELSE QuotientExponent(days, totalDays, from + 1)

\* Math.round(p.amount * proj.proportion), p.amount given in half-rubles.
\* Both operands are doubles.  The quotient days / totalDays is rounded to 53
\* bits, the product is rounded to 53 bits, and Math.round takes the nearest
\* integer, halves upwards.  The two roundings are far smaller than the distance
\* of the exact product to a half-way value unless the exact product IS a
\* half-way value k + 1/2: then the result is k when the quotient was rounded
\* down (remainder r of days * 2^(52+n) by totalDays with 0 < 2r < totalDays)
\* by more than half a unit in the last place of k + 1/2, and k + 1 otherwise.
RoundShare(halfAmount, prop) ==
  LET days == prop.num
      totalDays == prop.den
      exact == (halfAmount * days + totalDays) \div (2 * totalDays)
      halfway == (halfAmount * days + totalDays) % (2 * totalDays) = 0
      k == exact - 1
      n == QuotientExponent(days, totalDays, 0)
      r == (days * PowMod(52 + n, totalDays)) % totalDays
      below == /\ r # 0
               /\ 2 * r < totalDays
               /\ IF k = 0
                  THEN 4 * halfAmount * r > totalDays * Pow2(n)
                  ELSE halfAmount * r > totalDays * Pow2(Log2Floor(k) + n)
  IN IF days = 0 THEN 0
     ELSE IF halfway /\ below THEN k
     ELSE exact

RECURSIVE FilterRows(_, _)
\* Object.entries(timeData).filter(([, days]) => days > 0 || isContract)
FilterRows(timeData, isContract) ==
  IF timeData = <<>> THEN <<>>
  ELSE (IF Head(timeData).days > 0 \/ isContract THEN << Head(timeData) >> ELSE <<>>)
         \o FilterRows(Tail(timeData), isContract)

\* the EmployeeDistribution computed for one employee
Distribution(emp, timeData, pays) ==
  LET isContract == Truthy(emp.contractRate)
      totalDays == SumDays(timeData)
      totalAccrued == IF isContract THEN OrZero(emp.contractRate)
                      ELSE totalDays * OrZero(emp.dailyRate)
      rows == FilterRows(timeData, isContract)
      projectRows == [j \in 1..Len(rows) |->
                    [projectId |-> rows[j].projectId,
                     days |-> rows[j].days,
                     proportion |-> proportion(isContract, rows[j].days, totalDays),
                     accrued |-> IF isContract THEN OrZero(emp.contractRate)
                                 ELSE rows[j].days * OrZero(emp.dailyRate)]]
      breakdown == [k \in 1..Len(pays) |->
                     [j \in 1..Len(projectRows) |->
                        RoundShare(pays[k], projectRows[j].proportion)]]
  IN [listed |-> "accountant" \notin emp.roles /\ totalAccrued > 0,
      isContract |-> isContract,
      totalDays |-> totalDays,
      totalAccrued |-> totalAccrued,
      projects |-> projectRows,
      payments |-> pays,
      projectBreakdown |-> breakdown,
      paid |-> [j \in 1..Len(projectRows) |->
                 SumSeq([k \in 1..Len(pays) |-> breakdown[k][j]])]]

\* useMemo of SalaryDistributionTab.distributions, for the employee under test
Distribute ==
  /\ lastOp' = "distributions"
  /\ distResult = <<>>
  /\ distResult' = << Distribution(distEmployee, distTimeData, distPayments) >>
  /\ UNCHANGED << distEmployee, distTimeData, distPayments >>
  /\ UNCHANGED << ledgerVars, payrollVars, accrualVars, weeksVars, apiVars, viewVars >>

(***************************************************************************)
(* Period grid: generateWeeks (Finance page, task card, project analytics) *)
(*                                                                         *)
(* A Date is modelled by the number of its local calendar day, counted     *)
(* from 1970-01-01.  Every Date the two functions build is a local         *)
(* midnight (parseISO of a date-only string, new Date(y, m, d),            *)
(* startOfWeek), and addWeeks moves the calendar date with setDate, so the *)
(* comparisons of the loops are comparisons of calendar days.              *)
(***************************************************************************)
\* an ISO date string "YYYY-MM-DD", by its three fields
IsoDate(y, m, d) == [year |-> y, month |-> m, day |-> d]

\* the { startDate, endDate } pair of one project
DateRange(startDate, endDate) == [startDate |-> startDate, endDate |-> endDate]

\* the calendar day number of a civil date of the Gregorian calendar
\* (month 1..12): 1970-01-01 is day 0
DayNumber(y, m, d) ==
  LET yy  == IF m <= 2 THEN y - 1 ELSE y
      era == yy \div 400
      yoe == yy - era * 400
      mp  == IF m > 2 THEN m - 3 ELSE m + 9
      doy == (153 * mp + 2) \div 5 + d - 1
      doe == yoe * 365 + yoe \div 4 - yoe \div 100 + doy
  IN  era * 146097 + doe - 719468

\* date-fns parseISO of a date-only string: local midnight of that day
parseISO(iso) == DayNumber(iso.year, iso.month, iso.day)

\* new Date(year, monthIndex, day): the month index counts from 0
NewDate(year, monthIndex, day) == DayNumber(year, monthIndex + 1, day)

\* Date.getDay: 0 is Sunday; 1970-01-01 was a Thursday
getDay(date) == (date + 4) % 7

\* date-fns startOfWeek(date, { weekStartsOn })
startOfWeek(date, weekStartsOn) ==
  LET day  == getDay(date)
      diff == (IF day < weekStartsOn THEN 7 ELSE 0) + day - weekStartsOn
  IN  date - diff

\* a faulty addWeeks whose week has six days
addWeeksOfSixDays(date, amount) == date + 6 * amount

\* date-fns addWeeks(date, amount)
addWeeks(date, amount) == date + 7 * amount

\* Math.min(...) and Math.max(...) over a non-empty list of times
MinOf(s) == CHOOSE x \in {s[i] : i \in 1..Len(s)} : \A i \in 1..Len(s) : x <= s[i]

MaxOf(s) == CHOOSE x \in {s[i] : i \in 1..Len(s)} : \A i \in 1..Len(s) : x >= s[i]

\* the longest grid the loop is followed for
MaxWeeks == 160

\* let current = minDate; while (current <= last) { push(current); current =
\* addWeeks(current, 1) }: after j rounds current is addWeeks(minDate, j), and
\* the loop makes as many pushes as rounds pass the test before the first
\* round that fails it
WeeksLoop(minDate, last) ==
  LET pushes == CHOOSE n \in 0..MaxWeeks :
                  /\ \A j \in 0..(n - 1) : addWeeks(minDate, j) <= last
                  /\ ~(addWeeks(minDate, n) <= last)
  IN  [i \in 1..pushes |-> addWeeks(minDate, i - 1)]

\* a faulty range-derived policy without the two weeks after the latest end
generateWeeksWithoutBuffer(ranges) ==
  IF Len(ranges) = 0 THEN << >>
  ELSE
    LET starts == [i \in 1..Len(ranges) |-> parseISO(ranges[i].startDate)]
        ends   == [i \in 1..Len(ranges) |-> parseISO(ranges[i].endDate)]
    IN  WeeksLoop(startOfWeek(MinOf(starts), 1), MaxOf(ends))

\* generateWeeks(projects), the range-derived policy
generateWeeksByRange(ranges) ==
  IF Len(ranges) = 0 THEN << >>
  ELSE
    LET starts  == [i \in 1..Len(ranges) |-> parseISO(ranges[i].startDate)]
        ends    == [i \in 1..Len(ranges) |-> parseISO(ranges[i].endDate)]
        minDate == startOfWeek(MinOf(starts), 1)
        maxDate == MaxOf(ends)
    IN  WeeksLoop(minDate, addWeeks(maxDate, 2))

\* a faulty half-year policy that remembers how many ledger entries were saved
generateWeeksCountingSaves(ranges, now) ==
  WeeksLoop(startOfWeek(NewDate(now.year, IF now.month < 6 THEN 0 ELSE 6, 1), 1),
            addWeeks(NewDate(now.year, IF now.month < 6 THEN 5 ELSE 11,
                             IF now.month < 6 THEN 30 ELSE 31), nAppends))

\* a faulty half-year policy that always takes January to June
generateWeeksOfFirstHalf(ranges, now) ==
  WeeksLoop(startOfWeek(NewDate(now.year, 0, 1), 1), NewDate(now.year, 5, 30))

\* generateWeeks(_projects?), the fixed half-year policy: the argument is not
\* read; now carries getFullYear() and getMonth() of the clock
generateWeeks(ranges, now) ==
  LET year      == now.year
      month     == now.month
      halfStart == IF month < 6 THEN NewDate(year, 0, 1) ELSE NewDate(year, 6, 1)
      halfEnd   == IF month < 6 THEN NewDate(year, 5, 30) ELSE NewDate(year, 11, 31)
      minDate   == startOfWeek(halfStart, 1)
  IN  WeeksLoop(minDate, halfEnd)

\* the date ranges of the mock projects, and two short ranges: one that starts
\* on a Sunday and ends on the next day, one of a single Monday
mockRanges ==
  << DateRange(IsoDate(2024, 3, 1), IsoDate(2024, 12, 30)),
     DateRange(IsoDate(2024, 1, 15), IsoDate(2024, 11, 30)),
     DateRange(IsoDate(2024, 6, 1), IsoDate(2025, 6, 1)),
     DateRange(IsoDate(2023, 9, 1), IsoDate(2024, 4, 30)),
     DateRange(IsoDate(2023, 3, 1), IsoDate(2023, 8, 15)) >>

WeekRangePool ==
  {mockRanges[i] : i \in 1..Len(mockRanges)}
    \cup {DateRange(IsoDate(2024, 9, 1), IsoDate(2024, 9, 2)),
          DateRange(IsoDate(2024, 2, 26), IsoDate(2024, 2, 26))}

\* the lists of project ranges a caller hands over: none, one or two projects
MaxRanges == 2

WeekRangeLists ==
  UNION {[1..n -> WeekRangePool] : n \in 0..MaxRanges}

\* the years the clock may show, a leap year among them
ClockYears == 2023..2026

ClockDates == [year : ClockYears, month : 0..11]

\* the range-derived grid is computed from the project ranges
ComputeWeeksByRange ==
  /\ weeksByRange = << >>
  /\ weeksByRange' = << generateWeeksByRange(weekRanges) >>
  /\ UNCHANGED << weekRanges, weekNow, weeksByHalf, lastOp >>
  /\ UNCHANGED << ledgerVars, payrollVars, accrualVars, distVars, apiVars, viewVars >>

\* the half-year grid is computed at the clock's date
ComputeWeeksByHalf ==
  /\ weeksByHalf = << >>
  /\ weeksByHalf' = << generateWeeks(weekRanges, weekNow) >>
  /\ UNCHANGED << weekRanges, weekNow, weeksByRange, lastOp >>
  /\ UNCHANGED << ledgerVars, payrollVars, accrualVars, distVars, apiVars, viewVars >>

\* the calls of one session that are followed
MaxCalls == 2

\* a later render, or a later save on the task card, calls generateWeeks again
\* with the same ranges and the same clock date
RecomputeWeeksByRange ==
  /\ Len(weeksByRange) >= 1
  /\ Len(weeksByRange) < MaxCalls
  /\ weeksByRange' = Append(weeksByRange, generateWeeksByRange(weekRanges))
  /\ UNCHANGED << weekRanges, weekNow, weeksByHalf, lastOp >>
  /\ UNCHANGED << ledgerVars, payrollVars, accrualVars, distVars, apiVars, viewVars >>

RecomputeWeeksByHalf ==
  /\ Len(weeksByHalf) >= 1
  /\ Len(weeksByHalf) < MaxCalls
  /\ weeksByHalf' = Append(weeksByHalf, generateWeeks(weekRanges, weekNow))
  /\ UNCHANGED << weekRanges, weekNow, weeksByRange, lastOp >>
  /\ UNCHANGED << ledgerVars, payrollVars, accrualVars, distVars, apiVars, viewVars >>

(***************************************************************************)
(* Mock API: mockApiFetch over the in-memory collections of lib/api.ts     *)
(*                                                                         *)
(* An item of a collection is a function from field names to strings.  A   *)
(* request body is the parsed JSON value: null, or an object.  A path is   *)
(* the list rawPath.split("/") gives, so "/tasks" is << "", "tasks" >>.    *)
(***************************************************************************)
ApiNull == "null"

\* item.name, undefined when the item has no such field
Field(item, name) == IF name \in DOMAIN item THEN item[name] ELSE Undefined

\* { ...a, ...b }
Spread(a, b) ==
  [k \in DOMAIN a \cup DOMAIN b |-> IF k \in DOMAIN b THEN b[k] ELSE a[k]]

NoBody == [null |-> TRUE, fields |-> << >>]

JsonBody(fields) == [null |-> FALSE, fields |-> fields]

\* what the promise of mockApiFetch settles with: an array of items, one
\* item, {}, null, undefined, the request body, or a thrown TypeError
Resp(kind, items, body) == [kind |-> kind, items |-> items, body |-> body]

RespArray(items) == Resp("array", items, NoBody)

RespItem(item) == Resp("object", << item >>, NoBody)

RespOf(kind) == Resp(kind, << >>, NoBody)

\* params.get(name): null when the query string has no such parameter
QueryGet(query, name) == IF name \in DOMAIN query THEN query[name] ELSE ApiNull

\* if (value) ... on a query parameter: null and "" are falsy
QueryGiven(query, name) == name \in DOMAIN query /\ query[name] # ""

\* parts.filter(Boolean)
NonEmptyParts(parts) == SelectSeq(parts, LAMBDA x : x # "")

\* patternParts[i].startsWith(":"), over the patterns of the route table
IsParam(part) == part = ":id"

\* a faulty matchRoute that compares only the number of parts
matchRouteByLength(path, pattern) ==
  IF Len(NonEmptyParts(path)) # Len(NonEmptyParts(pattern)) THEN << >>
  ELSE << [id |-> NonEmptyParts(path)[Len(NonEmptyParts(path))]] >>

\* matchRoute(path, pattern): << >> for null, else the params object
matchRoute(path, pattern) ==
  LET pathParts    == NonEmptyParts(path)
      patternParts == NonEmptyParts(pattern)
  IN  IF Len(pathParts) # Len(patternParts) THEN << >>
      ELSE IF \E i \in 1..Len(patternParts) :
                ~IsParam(patternParts[i]) /\ patternParts[i] # pathParts[i]
      THEN << >>
      ELSE << [id |-> pathParts[CHOOSE i \in 1..Len(patternParts) :
                                  IsParam(patternParts[i])]] >>

\* coll.findIndex((x) => x.id === id), counted from 1; 0 for -1
FindIndexById(coll, id) ==
  IF \E i \in 1..Len(coll) : Field(coll[i], "id") = id
  THEN CHOOSE i \in 1..Len(coll) :
         /\ Field(coll[i], "id") = id
         /\ \A j \in 1..(i - 1) : Field(coll[j], "id") # id
  ELSE 0

\* coll.filter((x) => x.name === value)
FilterByField(coll, name, value) == SelectSeq(coll, LAMBDA x : Field(x, name) = value)

\* coll.filter((x) => x.id !== id)
RemoveById(coll, id) == SelectSeq(coll, LAMBDA x : Field(x, "id") # id)

\* idx >= 0 ? the collection with { ...coll[idx], ...fields } at idx : coll
PatchAt(coll, idx, fields) ==
  IF idx = 0 THEN coll ELSE [coll EXCEPT ![idx] = Spread(coll[idx], fields)]

\* return coll[idx]: undefined for idx = -1
RespAt(coll, idx) == IF idx = 0 THEN RespOf("undefined") ELSE RespItem(coll[idx])

\* `${prefix}-${Date.now()}`, for the two clock readings followed
GeneratedIds ==
  [dept  |-> << "dept-1001", "dept-1002" >>,
   user  |-> << "user-1001", "user-1002" >>,
   contr |-> << "contr-1001", "contr-1002" >>,
   proj  |-> << "proj-1001", "proj-1002" >>,
   task  |-> << "task-1001", "task-1002" >>,
   te    |-> << "te-1001", "te-1002" >>,
   dayoff |-> << "do-1001", "do-1002" >>]

ApiClock == {1, 2}

GeneratedId(prefix, now) == GeneratedIds[prefix][now]

\* the collections at start-up, a few items of each
mockDb ==
  [departments |-> << [id |-> "dept-1"] >>,
   employees   |-> << [id |-> "user-1"], [id |-> "user-2"] >>,
   projects    |-> << [id |-> "proj-1", departmentId |-> "dept-1", status |-> "active"],
                      [id |-> "proj-5", departmentId |-> "dept-3", status |-> "archived"] >>,
   tasks       |-> << [id |-> "acc-4", projectId |-> "proj-1", taskType |-> "accounting",
                       assigneeId |-> "user-5", status |-> "in_progress"] >>,
   contractors |-> << [id |-> "contr-1"] >>,
   timeEntries |-> << >>,
   dayOffs     |-> << >>]

\* the collections no route writes
mockSubcontractRequests == << [id |-> "sub-1", status |-> "pending"] >>

mockProjectMembers == [p \in {"proj-1"} |-> << "user-1", "user-8" >>]

mockProjectSubcontractors == << [id |-> "psub-1", projectId |-> "proj-1"] >>

\* (options.method || "GET").toUpperCase()
MethodOf(optionsMethod) ==
  CASE optionsMethod = ""     -> "GET"
    [] optionsMethod = "post" -> "POST"
    [] OTHER                  -> optionsMethod

Out(db, response) == [db |-> db, response |-> response]

\* mockApiFetch(path, options): the collections after the call and what the
\* promise settles with; the routes are tried in the order of the source
mockApiFetch(db, optionsMethod, path, query, body, now) ==
  LET method == MethodOf(optionsMethod)
      Exact(parts) == path = << "" >> \o parts
      Match(pattern) == matchRoute(path, pattern) # << >>
      IdOf(pattern) == matchRoute(path, pattern)[1].id
      Posted(prefix) == Spread([id |-> GeneratedId(prefix, now)], body.fields)
      PatchedOut(name, pattern) ==
        LET idx  == FindIndexById(db[name], IdOf(pattern))
            coll == PatchAt(db[name], idx, body.fields)
        IN  Out([db EXCEPT ![name] = coll], RespAt(coll, idx))
      Deleted(name, pattern) ==
        Out([db EXCEPT ![name] = RemoveById(db[name], IdOf(pattern))], RespOf("empty object"))
      Found(name, pattern, missing) ==
        LET idx == FindIndexById(db[name], IdOf(pattern))
        IN  Out(db, IF idx = 0 THEN RespOf(missing) ELSE RespItem(db[name][idx]))
  IN
  \* Departments
  IF Exact(<< "departments" >>) /\ method = "GET" THEN Out(db, RespArray(db.departments))
  ELSE IF Exact(<< "departments" >>) /\ method = "POST" THEN
    Out([db EXCEPT !.departments = Append(@, Posted("dept"))], RespItem(Posted("dept")))
  ELSE IF Match(<< "departments", ":id" >>) /\ method = "PATCH" THEN
    PatchedOut("departments", << "departments", ":id" >>)
  ELSE IF Match(<< "departments", ":id" >>) /\ method = "DELETE" THEN
    Deleted("departments", << "departments", ":id" >>)
  \* Users / Employees
  ELSE IF Exact(<< "users" >>) /\ method = "GET" THEN Out(db, RespArray(db.employees))
  ELSE IF Exact(<< "users" >>) /\ method = "POST" THEN
    LET emp == Spread(Posted("user"), [activeProjects |-> "0"])
    IN  Out([db EXCEPT !.employees = Append(@, emp)], RespItem(emp))
  ELSE IF Match(<< "users", ":id" >>) /\ method = "PATCH" THEN
    PatchedOut("employees", << "users", ":id" >>)
  ELSE IF Match(<< "users", ":id" >>) /\ method = "DELETE" THEN
    Deleted("employees", << "users", ":id" >>)
  \* Contractors
  ELSE IF Exact(<< "contractors" >>) /\ method = "GET" THEN Out(db, RespArray(db.contractors))
  ELSE IF Exact(<< "contractors" >>) /\ method = "POST" THEN
    Out([db EXCEPT !.contractors = Append(@, Posted("contr"))], RespItem(Posted("contr")))
  ELSE IF Match(<< "contractors", ":id" >>) /\ method = "GET" THEN
    Found("contractors", << "contractors", ":id" >>, "empty object")
  ELSE IF Match(<< "contractors", ":id" >>) /\ method = "PATCH" THEN
    PatchedOut("contractors", << "contractors", ":id" >>)
  ELSE IF Match(<< "contractors", ":id" >>) /\ method = "DELETE" THEN
    Deleted("contractors", << "contractors", ":id" >>)
  \* Projects
  ELSE IF Exact(<< "projects" >>) /\ method = "GET" THEN
    Out(db, RespArray(IF QueryGiven(query, "departmentId")
                      THEN FilterByField(db.projects, "departmentId",
                                         QueryGet(query, "departmentId"))
                      ELSE db.projects))
  ELSE IF Exact(<< "projects" >>) /\ method = "POST" THEN
    LET p == Spread(Posted("proj"),
                    [progress |-> "0", team |-> "0", tasks |-> "0/0", sections |-> "[]"])
    IN  Out([db EXCEPT !.projects = Append(@, p)], RespItem(p))
  ELSE IF Match(<< "projects", ":id" >>) /\ method = "GET" THEN
    Found("projects", << "projects", ":id" >>, "null")
  ELSE IF Match(<< "projects", ":id" >>) /\ method = "PATCH" THEN
    PatchedOut("projects", << "projects", ":id" >>)
  ELSE IF Match(<< "projects", ":id" >>) /\ method = "DELETE" THEN
    Deleted("projects", << "projects", ":id" >>)
  ELSE IF Match(<< "projects", ":id", "restore" >>) /\ method = "POST" THEN
    LET idx == FindIndexById(db.projects, IdOf(<< "projects", ":id", "restore" >>))
    IN  Out([db EXCEPT !.projects = PatchAt(@, idx, [status |-> "active"])],
            RespOf("empty object"))
  \* Project members
  ELSE IF Match(<< "projects", ":id", "members" >>) /\ method = "GET" THEN
    LET pid       == IdOf(<< "projects", ":id", "members" >>)
        memberIds == IF pid \in DOMAIN mockProjectMembers THEN mockProjectMembers[pid]
                     ELSE << >>
        known     == SelectSeq(memberIds, LAMBDA u : FindIndexById(db.employees, u) # 0)
    IN  Out(db, RespArray([i \in 1..Len(known) |->
                             db.employees[FindIndexById(db.employees, known[i])]]))
  \* Project tasks
  ELSE IF Match(<< "projects", ":id", "tasks" >>) /\ method = "GET" THEN
    Out(db, RespArray(FilterByField(db.tasks, "projectId",
                                    IdOf(<< "projects", ":id", "tasks" >>))))
  \* Project subcontractors
  ELSE IF Match(<< "projects", ":id", "subcontractors" >>) /\ method = "GET" THEN
    Out(db, RespArray(FilterByField(mockProjectSubcontractors, "projectId",
                                    IdOf(<< "projects", ":id", "subcontractors" >>))))
  \* Project sections
  ELSE IF Match(<< "projects", ":id", "sections" >>) /\ method = "GET" THEN
    LET idx == FindIndexById(db.projects, IdOf(<< "projects", ":id", "sections" >>))
    IN  Out(db, IF idx = 0 \/ Field(db.projects[idx], "sections") \in {Undefined, ApiNull, "[]"}
                THEN RespArray(<< >>)
                ELSE Resp("sections", << >>, NoBody))
  ELSE IF Match(<< "projects", ":id", "sections" >>) /\ method = "PUT" THEN
    LET idx == FindIndexById(db.projects, IdOf(<< "projects", ":id", "sections" >>))
    IN  Out([db EXCEPT !.projects =
               PatchAt(@, idx, [sections |-> IF body.null THEN ApiNull ELSE "body"])],
            Resp("body", << >>, body))
  \* Tasks
  ELSE IF Exact(<< "tasks" >>) /\ method = "GET" THEN
    LET byProject  == IF QueryGiven(query, "projectId")
                      THEN FilterByField(db.tasks, "projectId", QueryGet(query, "projectId"))
                      ELSE db.tasks
        byType     == IF QueryGiven(query, "taskType")
                      THEN FilterByField(byProject, "taskType", QueryGet(query, "taskType"))
                      ELSE byProject
        byAssignee == IF QueryGiven(query, "assigneeId")
                      THEN FilterByField(byType, "assigneeId", QueryGet(query, "assigneeId"))
                      ELSE byType
    IN  Out(db, RespArray(byAssignee))
  ELSE IF Exact(<< "tasks" >>) /\ method = "POST" THEN
    Out([db EXCEPT !.tasks = Append(@, Posted("task"))], RespItem(Posted("task")))
  ELSE IF Match(<< "tasks", ":id" >>) /\ method = "GET" THEN
    Found("tasks", << "tasks", ":id" >>, "null")
  ELSE IF Match(<< "tasks", ":id" >>) /\ method = "PATCH" THEN
    PatchedOut("tasks", << "tasks", ":id" >>)
  ELSE IF Match(<< "tasks", ":id" >>) /\ method = "DELETE" THEN
    Deleted("tasks", << "tasks", ":id" >>)
  \* Subcontract requests
  ELSE IF Exact(<< "subcontracts", "requests" >>) /\ method = "GET" THEN
    Out(db, RespArray(IF QueryGiven(query, "status") /\ QueryGet(query, "status") # "all"
                      THEN FilterByField(mockSubcontractRequests, "status",
                                         QueryGet(query, "status"))
                      ELSE mockSubcontractRequests))
  \* Time tracking entries
  ELSE IF Exact(<< "time-tracking", "entries" >>) /\ method = "GET" THEN
    Out(db, RespArray(FilterByField(db.timeEntries, "userId", QueryGet(query, "userId"))))
  ELSE IF Exact(<< "time-tracking", "entries" >>) /\ method = "POST" THEN
    IF body.null /\ Len(db.timeEntries) > 0
    THEN Out(db, RespOf("TypeError"))   \* body.userId of null inside findIndex
    ELSE
      LET Same(e) == /\ Field(e, "userId") = Field(body.fields, "userId")
                     /\ Field(e, "taskId") = Field(body.fields, "taskId")
                     /\ Field(e, "date") = Field(body.fields, "date")
          existing == IF \E i \in 1..Len(db.timeEntries) : Same(db.timeEntries[i])
                      THEN CHOOSE i \in 1..Len(db.timeEntries) :
                             /\ Same(db.timeEntries[i])
                             /\ \A j \in 1..(i - 1) : ~Same(db.timeEntries[j])
                      ELSE 0
      IN  Out([db EXCEPT !.timeEntries =
                 IF existing # 0 THEN PatchAt(@, existing, body.fields)
                 ELSE Append(@, Posted("te"))],
              RespOf("empty object"))
  \* Day offs
  ELSE IF Exact(<< "time-tracking", "day-offs" >>) /\ method = "GET" THEN
    Out(db, RespArray(FilterByField(db.dayOffs, "userId", QueryGet(query, "userId"))))
  ELSE IF Exact(<< "time-tracking", "day-offs" >>) /\ method = "POST" THEN
    Out([db EXCEPT !.dayOffs = Append(@, Posted("dayoff"))], RespOf("empty object"))
  \* Project files (stub)
  ELSE IF Match(<< "projects", ":id", "files" >>) THEN Out(db, RespArray(<< >>))
  \* Project chat (stub)
  ELSE IF Match(<< "projects", ":id", "messages" >>) /\ method = "GET" THEN
    Out(db, RespArray(<< >>))
  ELSE IF Match(<< "projects", ":id", "messages" >>) /\ method = "POST" THEN
    Out(db, Resp("body", << >>, body))
  \* Contractor details
  ELSE IF Match(<< "contractors", ":id", "projects" >>) THEN Out(db, RespArray(<< >>))
  \* Auth refresh
  ELSE IF Exact(<< "auth", "refresh" >>) THEN Out(db, RespOf("empty object"))
  \* Fallback: console.warn, return []
  ELSE Out(db, RespArray(<< >>))

\* the requests followed: every route of the table, with ids that exist and
\* ids that do not, and paths and methods no route names
ApiMethods == {"", "GET", "post", "POST", "PATCH", "DELETE", "PUT"}

ApiPaths ==
  {<< "", "departments" >>, << "", "departments", "dept-1" >>, << "", "departments", "" >>,
   << "", "users" >>, << "", "users", "user-2" >>,
   << "", "contractors" >>, << "", "contractors", "contr-1" >>,
   << "", "contractors", "contr-1", "projects" >>,
   << "", "projects" >>, << "", "projects", "proj-5" >>, << "", "projects", "proj-9" >>,
   << "", "projects", "proj-5", "restore" >>, << "", "projects", "proj-1", "members" >>,
   << "", "projects", "proj-1", "tasks" >>, << "", "projects", "proj-1", "subcontractors" >>,
   << "", "projects", "proj-1", "sections" >>, << "", "projects", "proj-1", "files" >>,
   << "", "projects", "proj-1", "messages" >>, << "", "projects", "proj-1", "analytics" >>,
   << "", "tasks" >>, << "", "tasks", "acc-4" >>, << "", "tasks", "acc-4", "comments" >>,
   << "", "subcontracts", "requests" >>,
   << "", "time-tracking", "entries" >>, << "", "time-tracking", "day-offs" >>,
   << "", "auth", "refresh" >>, << "", "api", "projects" >>}

ApiQueries == {<< >>, [userId |-> "user-1", projectId |-> "proj-1", status |-> "all"]}

ApiBodies ==
  {NoBody,
   JsonBody([status |-> "done"]),
   JsonBody([userId |-> "user-1", taskId |-> "acc-4", date |-> "2026-01-12"])}

\* the calls of one session that are followed
MaxApiCalls == 2

\* apiFetch(path, options): one call of mockApiFetch, after its simulated delay
apiFetch ==
  /\ nApiCalls < MaxApiCalls
  /\ nApiCalls' = nApiCalls + 1
  /\ \E optionsMethod \in ApiMethods, path \in ApiPaths, query \in ApiQueries,
        body \in ApiBodies, now \in ApiClock :
       LET out == mockApiFetch(apiDb, optionsMethod, path, query, body, now)
       IN  /\ apiDb' = out.db
           /\ apiResponse' = out.response
           /\ apiRequest' = [method |-> MethodOf(optionsMethod), path |-> path]
  /\ UNCHANGED << ledgerVars, payrollVars, accrualVars, distVars, weeksVars, viewVars, lastOp >>

(***************************************************************************)
(* Salary distribution view by month (SalaryDistributionTab with the month, *)
(* search and department filters)                                          *)
(***************************************************************************)
\* `${d.getFullYear()}-${String(d.getMonth() + 1).padStart(2, "0")}`
MonthKeys ==
  [y \in 2025..2027 |->
    CASE y = 2025 -> << "2025-01", "2025-02", "2025-03", "2025-04", "2025-05", "2025-06",
                        "2025-07", "2025-08", "2025-09", "2025-10", "2025-11", "2025-12" >>
      [] y = 2026 -> << "2026-01", "2026-02", "2026-03", "2026-04", "2026-05", "2026-06",
                        "2026-07", "2026-08", "2026-09", "2026-10", "2026-11", "2026-12" >>
      [] y = 2027 -> << "2027-01", "2027-02", "2027-03", "2027-04", "2027-05", "2027-06",
                        "2027-07", "2027-08", "2027-09", "2027-10", "2027-11", "2027-12" >>]

\* the month value of new Date(year, monthIndex, 1), monthIndex out of 0..11
\* carried into the neighbouring year
MonthValue(year, monthIndex) ==
  IF monthIndex < 0 THEN MonthKeys[year - 1][monthIndex + 13]
  ELSE IF monthIndex > 11 THEN MonthKeys[year + 1][monthIndex - 11]
  ELSE MonthKeys[year][monthIndex + 1]

\* getMonthOptions: the three months before now, the month of now, the three after
getMonthOptions(now) == [k \in 1..7 |-> MonthValue(now.year, now.month + (k - 4))]

getCurrentMonth(now) == MonthValue(now.year, now.month)

\* the clock dates followed: a month with recorded days and the present month
ViewClocks == {[year |-> 2026, month |-> 1], [year |-> 2026, month |-> 10]}

\* primaryDepartmentId of mockEmployees
primaryDepartmentId ==
  [e \in {"user-1", "user-2", "user-3", "user-4", "user-5", "user-6", "user-7", "user-8"} |->
    CASE e \in {"user-1", "user-2", "user-3"} -> "dept-1"
      [] e \in {"user-4", "user-7"} -> "dept-2"
      [] e \in {"user-6", "user-8"} -> "dept-3"
      [] e = "user-5" -> "dept-4"]

mockDepartmentIds == {"dept-1", "dept-2", "dept-3", "dept-4"}

\* the search texts followed (in Latin letters for the Cyrillic ones typed),
\* and for each the employees e with
\* e.name.toLowerCase().includes(q.trim().toLowerCase()): "ov" occurs in every
\* full name but that of user-7 (Lebedeva), "Volk" in that of user-6 (Volkov)
SearchHits ==
  [q \in {"", "  ", "ov", "Volk", "zzz"} |->
    CASE q = "ov"   -> {"user-1", "user-2", "user-3", "user-4", "user-5", "user-6", "user-8"}
      [] q = "Volk" -> {"user-6"}
      [] q = "zzz"  -> {}
      [] OTHER      -> {"user-1", "user-2", "user-3", "user-4", "user-5", "user-6",
                        "user-7", "user-8"}]

\* searchQuery.trim() is not empty
SearchGiven(q) == q \notin {"", "  "}

\* employees: the non-accountants with totalAccrued > 0 in the month, each with
\* its department and its project rows
employees(month) ==
  LET all == [i \in 1..Len(mockEmployees) |->
                [id |-> mockEmployees[i].id,
                 departmentId |-> primaryDepartmentId[mockEmployees[i].id],
                 dist |-> Distribution(mockEmployees[i],
                                       TimeDataOf(demoMonthlyTime, mockEmployees[i].id, month),
                                       << >>)]]
  IN  SelectSeq(all, LAMBDA e : e.dist.listed)

\* filtered: employees narrowed by the search text and the department
filtered(month, query, department) ==
  LET bySearch == IF SearchGiven(query)
                  THEN SelectSeq(employees(month), LAMBDA e : e.id \in SearchHits[query])
                  ELSE employees(month)
  IN  IF department # "all"
      THEN SelectSeq(bySearch, LAMBDA e : e.departmentId = department)
      ELSE bySearch

RECURSIVE SumAccruedOf(_, _)
\* the accrued amounts of the rows of one project, added up
SumAccruedOf(rows, projectId) ==
  IF rows = << >> THEN 0
  ELSE (IF Head(rows).projectId = projectId THEN Head(rows).accrued ELSE 0)
         + SumAccruedOf(Tail(rows), projectId)

RECURSIVE AllRows(_)
\* for (const emp of filtered) for (const proj of emp.projects): the rows in order
AllRows(emps) ==
  IF emps = << >> THEN << >> ELSE Head(emps).dist.projects \o AllRows(Tail(emps))

\* projectSummary: per project id met in the rows, the accrued total
projectSummary(emps) ==
  [p \in {AllRows(emps)[j].projectId : j \in 1..Len(AllRows(emps))} |->
     SumAccruedOf(AllRows(emps), p)]

RECURSIVE SumTotalAccrued(_)
\* grandTotal: filtered.reduce((s, e) => s + e.totalAccrued, 0)
SumTotalAccrued(emps) ==
  IF emps = << >> THEN 0 ELSE Head(emps).dist.totalAccrued + SumTotalAccrued(Tail(emps))

grandTotal(emps) == SumTotalAccrued(emps)

setSelectedMonth(value) ==
  /\ selectedMonth' = value
  /\ UNCHANGED << viewClock, searchQuery, selectedDepartment, lastOp >>
  /\ UNCHANGED << ledgerVars, payrollVars, accrualVars, distVars, weeksVars, apiVars >>

setSearchQuery(value) ==
  /\ searchQuery' = value
  /\ UNCHANGED << viewClock, selectedMonth, selectedDepartment, lastOp >>
  /\ UNCHANGED << ledgerVars, payrollVars, accrualVars, distVars, weeksVars, apiVars >>

setSelectedDepartment(value) ==
  /\ selectedDepartment' = value
  /\ UNCHANGED << viewClock, selectedMonth, searchQuery, lastOp >>
  /\ UNCHANGED << ledgerVars, payrollVars, accrualVars, distVars, weeksVars, apiVars >>

(***************************************************************************)
(* Initial states and specifications                                       *)
(***************************************************************************)
\* the ledger side after start-up, over a given project list and expense ledger
LedgerInitWith(projectList, expenseLedger) ==
  /\ user = "admin"
  /\ projects = projectList
  /\ createdTasks = << >>
  /\ isCreateTaskOpen = FALSE
  /\ createTaskProjectId = Undefined
  /\ selectedProjectId = ""
  /\ accountingProjectId = ""
  /\ taskStatus = [t \in TaskIds |-> mockTasks[t].status]
  /\ globalPayments = expenseLedger
  /\ globalIncomes = buildInitialIncomes
  /\ financeMounted = FALSE
  /\ payments = EmptyLedger
  /\ incomes = EmptyLedger
  /\ dialogOpen = FALSE
  /\ dialogMode = "payment"
  /\ editCell = NoCell
  /\ cardTaskId = Undefined
  /\ cardTask = Undefined
  /\ showPaymentForm = FALSE
  /\ pendingPatch = [t \in TaskIds |-> 0]
  /\ nAppends = 0

LedgerInit == LedgerInitWith(mockProjects, buildInitialPayments)

PayrollInit ==
  /\ globalPayrolls = buildInitialPayrolls
  /\ tabMounted = FALSE
  /\ localPayrolls = <<>>
  /\ selectedPayrollId = ""
  /\ nEdits = 0

AccrualInit ==
  /\ accEmployees = mockEmployees
  /\ accMonthlyTime = demoMonthlyTime
  /\ accCall = <<>>

DistInit ==
  /\ distEmployee = mockEmployees[1]
  /\ distTimeData = <<>>
  /\ distPayments = <<>>
  /\ distResult = <<>>

\* the distribution view as it mounts: the current month, no filter
ViewInitAt(now) ==
  /\ viewClock = now
  /\ selectedMonth = getCurrentMonth(now)
  /\ searchQuery = ""
  /\ selectedDepartment = "all"

ViewInit == ViewInitAt([year |-> 2026, month |-> 1])

\* the collections as the module builds them, no call made yet
ApiInit ==
  /\ apiDb = mockDb
  /\ apiRequest = [method |-> "", path |-> << >>]
  /\ apiResponse = RespOf("none")
  /\ nApiCalls = 0

\* no grid computed yet; the ranges of the two projects the ledger carries
WeeksInit ==
  /\ weekRanges = SubSeq(mockRanges, 1, 2)
  /\ weekNow = [year |-> 2026, month |-> 0]
  /\ weeksByRange = << >>
  /\ weeksByHalf = << >>

\* the application after start-up
Init ==
  /\ LedgerInit
  /\ PayrollInit
  /\ WeeksInit
  /\ ApiInit
  /\ ViewInit
  /\ AccrualInit
  /\ DistInit
  /\ lastOp = "init"

\* Finance page, task card and role switch over the shared ledgers
Next ==
  \/ \E role \in RolesTried : switchRole(role)
  \/ FinanceMount
  \/ FinanceUnmount
  \/ \E projectId \in Buckets, weekIndex \in EditableWeeks :
       openPaymentDialog(projectId, weekIndex)
  \/ \E projectId \in ProjectIds, weekIndex \in EditableWeeks :
       openIncomeDialog(projectId, weekIndex)
  \/ cancelDialog
  \/ \E dialogTaskId \in DialogTaskChoices, dialogAmount \in AmountTexts :
       \E employeeAmounts \in FormMaps(dialogTaskEmployees(dialogTaskId)) :
         saveEntry(dialogTaskId, dialogAmount, employeeAmounts)
  \/ \E taskId \in TaskIds : openCard(taskId)
  \/ closeCard
  \/ openPaymentForm
  \/ cancelPaymentForm
  \/ \E singleAmount \in AmountTexts, weekIndex \in EditableWeeks :
       /\ cardTaskId # Undefined
       /\ \E employeeAmounts \in FormMaps(taskEmployees) :
            handleSavePayment(singleAmount, employeeAmounts, weekIndex)
  \/ \E taskId \in TaskIds : patchDone(taskId)

Spec == Init /\ [][Next]_vars

\* SalaryPaymentsTab over the shared payroll store; the lines clicked on are
\* those of two employees, and user-5 (the accountant) has no line
PayrollEmployeeIds == {"user-1", "user-2", "user-5"}

PayrollNext ==
  \/ TabMount
  \/ TabUnmount
  \/ \E id \in PayrollIds(localPayrolls) : selectPayroll(id)
  \/ \E empId \in PayrollEmployeeIds : toggleEmployee(empId)
  \/ toggleAll
  \/ \E empId \in PayrollEmployeeIds, value \in AmountTexts : updateAmount(empId, value)
  \/ processPayroll

SpecPayroll == Init /\ [][PayrollNext]_vars

\* getEmployeeAccrued called on arbitrary employee and time data
AccrualSpecInit ==
  /\ LedgerInit
  /\ PayrollInit
  /\ WeeksInit
  /\ ApiInit
  /\ ViewInit
  /\ DistInit
  /\ lastOp = "init"
  /\ accCall = <<>>
  /\ \E r \in AccRoleSets, d \in AccDailyRates, c \in AccContractRates :
       accEmployees = << Employee("e1", r, d, c) >>
  /\ accMonthlyTime \in AccTimeTables

AccrualNext ==
  \E employeeId \in {"e1", "e9"}, month \in AccMonths : CallAccrued(employeeId, month)

SpecAccrual == AccrualSpecInit /\ [][AccrualNext]_vars

\* amounts saved for acc-8 (week 2 of proj-2) before the explored behaviour;
\* 0 stands for no earlier save
PriorSaves == {0, 30000, 145000, 430000, 431000, 530000, 630000}

\* the expense ledger after an earlier save of the given amount
PriorLedger(amount) ==
  IF amount = 0 THEN buildInitialPayments
  ELSE AppendToCell(buildInitialPayments, "proj-2", 2,
                    Entry(amount, "acc-8", "subcontract", TRUE,
                          << EP("psub-3", amount) >>))

\* project lists served to the Finance page: statuses and budgets vary
ReconcileProjectLists ==
  { [p \in ProjectIds |->
       CASE p = "proj-1" -> Project(s1, 12500000)
         [] p = "proj-2" -> Project(s2, b2)] :
    s1 \in {"active", "archived"}, s2 \in {"active", "completed"},
    b2 \in {0, 1000000, 2000000} }

\* the Finance page over varying project lists and ledgers
ReconcileInit ==
  /\ \E projectList \in ReconcileProjectLists, amount \in PriorSaves :
       LedgerInitWith(projectList, PriorLedger(amount))
  /\ PayrollInit
  /\ WeeksInit
  /\ ApiInit
  /\ ViewInit
  /\ AccrualInit
  /\ DistInit
  /\ lastOp = "init"

ReconcileNext ==
  \/ \E role \in RolesTried : switchRole(role)
  \/ FinanceMount
  \/ FinanceUnmount
  \/ \E projectId \in Buckets, weekIndex \in EditableWeeks :
       openPaymentDialog(projectId, weekIndex)
  \/ \E projectId \in ProjectIds, weekIndex \in EditableWeeks :
       openIncomeDialog(projectId, weekIndex)
  \/ cancelDialog
  \/ \E dialogTaskId \in DialogTaskChoices, dialogAmount \in AmountTexts :
       \E employeeAmounts \in FormMaps(dialogTaskEmployees(dialogTaskId)) :
         saveEntry(dialogTaskId, dialogAmount, employeeAmounts)

SpecReconcile == ReconcileInit /\ [][ReconcileNext]_vars

\* the Finance page with its CreateTaskDialog: tasks are created and paid
CreateNext ==
  \/ \E role \in RolesTried : switchRole(role)
  \/ FinanceMount
  \/ FinanceUnmount
  \/ \E projectId \in ProjectIds \cup {Undefined} : openCreateTask(projectId)
  \/ closeCreateTask
  \/ \E title \in {"", "t"}, assigneeId \in {"", "user-5"},
        accountingSubtype \in accountingSubtypeOptions,
        chosenProjectId \in {"", "proj-2"} :
       \E selectedEmployeeIds \in EmployeeSelections(accountingSubtype, chosenProjectId) :
         handleCreate(title, assigneeId, accountingSubtype, chosenProjectId,
                      selectedEmployeeIds)
  \/ \E projectId \in Buckets, weekIndex \in EditableWeeks :
       openPaymentDialog(projectId, weekIndex)
  \/ cancelDialog
  \/ \E dialogTaskId \in DialogTaskChoices, dialogAmount \in AmountTexts :
       \E employeeAmounts \in FormMaps(dialogTaskEmployees(dialogTaskId)) :
         saveEntry(dialogTaskId, dialogAmount, employeeAmounts)

SpecCreate == Init /\ [][CreateNext]_vars

\* the distribution of one employee's payments on arbitrary data
DistSpecInit ==
  /\ LedgerInit
  /\ PayrollInit
  /\ WeeksInit
  /\ ApiInit
  /\ ViewInit
  /\ AccrualInit
  /\ lastOp = "init"
  /\ distEmployee \in DistEmployees
  /\ distTimeData \in DistTimeRecords
  /\ \E p \in DistPayments : distPayments = << p >>
  /\ distResult = <<>>

DistNext == Distribute

SpecAlloc == DistSpecInit /\ [][DistNext]_vars

\* the period grid on arbitrary project ranges and clock dates
WeeksSpecInit ==
  /\ LedgerInit
  /\ PayrollInit
  /\ ApiInit
  /\ ViewInit
  /\ AccrualInit
  /\ DistInit
  /\ lastOp = "init"
  /\ weekRanges \in WeekRangeLists
  /\ weekNow \in ClockDates
  /\ weeksByRange = << >>
  /\ weeksByHalf = << >>

WeeksNext ==
  \/ ComputeWeeksByRange
  \/ ComputeWeeksByHalf

SpecWeeks == WeeksSpecInit /\ [][WeeksNext]_vars

\* the period grid computed again while the ledgers and the payroll store are
\* written: income saves of the accountant on the Finance page and processed
\* payroll runs
RegridRanges == {<< >>, SubSeq(mockRanges, 1, 2)}

RegridClockDates == {[year |-> 2026, month |-> 0], [year |-> 2026, month |-> 10]}

RegridInit ==
  /\ LedgerInit
  /\ PayrollInit
  /\ ApiInit
  /\ ViewInit
  /\ AccrualInit
  /\ DistInit
  /\ lastOp = "init"
  /\ weekRanges \in RegridRanges
  /\ weekNow \in RegridClockDates
  /\ weeksByRange = << >>
  /\ weeksByHalf = << >>

RegridNext ==
  \/ ComputeWeeksByRange
  \/ ComputeWeeksByHalf
  \/ RecomputeWeeksByRange
  \/ RecomputeWeeksByHalf
  \/ switchRole("accountant")
  \/ FinanceMount
  \/ \E projectId \in ProjectIds, weekIndex \in EditableWeeks :
       openIncomeDialog(projectId, weekIndex)
  \/ \E dialogAmount \in {"50"} : saveEntry("", dialogAmount, << >>)
  \/ TabMount
  \/ toggleAll
  \/ processPayroll

SpecRegrid == RegridInit /\ [][RegridNext]_vars

\* the mock API called on arbitrary requests
ApiNext == apiFetch

SpecApi == Init /\ [][ApiNext]_vars

\* the distribution view under its three filters
ViewSpecInit ==
  /\ LedgerInit
  /\ PayrollInit
  /\ WeeksInit
  /\ ApiInit
  /\ AccrualInit
  /\ DistInit
  /\ lastOp = "init"
  /\ \E now \in ViewClocks : ViewInitAt(now)

ViewNext ==
  \/ \E k \in 1..7 : setSelectedMonth(getMonthOptions(viewClock)[k])
  \/ \E value \in DOMAIN SearchHits : setSearchQuery(value)
  \/ \E value \in {"all"} \cup mockDepartmentIds : setSelectedDepartment(value)

SpecView == ViewSpecInit /\ [][ViewNext]_vars

(***************************************************************************)
(* Properties of the ledgers (Spec)                                        *)
(***************************************************************************)
\* a step in which saveEntry passed its early returns: the dialog was open and
\* the step closes it and clears editCell while the page stays mounted
SaveEntrySucceeds ==
  /\ financeMounted
  /\ dialogOpen
  /\ financeMounted'
  /\ ~dialogOpen'
  /\ editCell' = NoCell

\* C1: a successful Finance.saveEntry on the cell (b, i) leaves the entries that
\* were in the cell unchanged and in order, puts exactly one new entry after
\* them, and makes the cell total (getCellTotal in payment mode,
\* getIncomeCellTotal in income mode) larger by exactly that entry's amount,
\* which is positive.
C1_SaveAppendsToCell ==
  [][ \A b \in Buckets, i \in LedgerWeeks :
        (SaveEntrySucceeds /\ editCell = [projectId |-> b, weekIndex |-> i]) =>
          LET old == IF dialogMode = "income" THEN incomes[b][i] ELSE payments[b][i]
              new == IF dialogMode = "income" THEN incomes'[b][i] ELSE payments'[b][i]
              totalOld == IF dialogMode = "income" THEN getIncomeCellTotal(b, i)
                          ELSE getCellTotal(b, i)
              totalNew == IF dialogMode = "income" THEN getIncomeCellTotal(b, i)'
                          ELSE getCellTotal(b, i)'
          IN /\ Len(new) = Len(old) + 1
             /\ SubSeq(new, 1, Len(old)) = old
             /\ new[Len(new)].amount > 0
             /\ totalNew = totalOld + new[Len(new)].amount ]_vars

\* C1 witness: the Finance page has just saved a payment of 50 into the seeded
\* cell (proj-1, week 2), which now holds the seeded entry and the new one
C1_Witness ==
  /\ lastOp = "saveEntry"
  /\ financeMounted
  /\ Len(payments["proj-1"][2]) = 2
  /\ payments["proj-1"][2][1] = buildInitialPayments["proj-1"][2][1]
  /\ payments["proj-1"][2][2].amount = 50
  /\ getCellTotal("proj-1", 2) = 250050

C6_EmployeePaymentsSumToAmount ==
  \A ledger \in {globalPayments, payments} :
    \A b \in Buckets, w \in LedgerWeeks :
      \A k \in 1..Len(ledger[b][w]) :
        ledger[b][w][k].hasEmployeePayments =>
          SumSeq([j \in 1..Len(ledger[b][w][k].employeePayments) |->
                    ledger[b][w][k].employeePayments[j].amount])
            = ledger[b][w][k].amount

(***************************************************************************)
(* Properties of the payroll runs (SpecPayroll)                            *)
(***************************************************************************)
\* C3: once the selected payroll run is processed, toggleEmployee, toggleAll and
\* updateAmount change nothing: the tab's copy of the runs and the payroll
\* store are the same after the call as before it.
C3_EditsOfProcessedRunAreNoOps ==
  [][ (/\ tabMounted
       /\ isProcessed
       /\ lastOp' \in {"toggleEmployee", "toggleAll", "updateAmount"}) =>
        /\ localPayrolls' = localPayrolls
        /\ globalPayrolls' = globalPayrolls ]_vars

\* C3 witness: updateAmount has just run on a line of a processed run that was
\* selected by hand
C3_Witness ==
  /\ lastOp = "updateAmount"
  /\ tabMounted
  /\ isProcessed
  /\ selectedPayrollId = "payroll-2026-01-20"

\* C4: a run that is processed in the payroll store is processed after every
\* step: no action sets the flag back to false.
C4_ProcessedIsOneWay ==
  [][ /\ Len(globalPayrolls') = Len(globalPayrolls)
      /\ \A i \in 1..Len(globalPayrolls) :
           /\ globalPayrolls'[i].id = globalPayrolls[i].id
           /\ globalPayrolls[i].processed => globalPayrolls'[i].processed ]_vars

\* C4 witness: the run seeded as a draft was processed, and selections and edits
\* took place after that
C4_Witness ==
  /\ globalPayrolls[3].processed
  /\ ~buildInitialPayrolls[3].processed
  /\ lastOp \in {"toggleEmployee", "toggleAll", "updateAmount", "selectPayroll"}

\* C5: processPayroll run a second time in a row on the same run leaves the
\* payroll store as the first call left it, with the run processed.
C5_ProcessPayrollIdempotent ==
  [][ (/\ lastOp \in {"processPayroll", "processPayroll again"}
       /\ lastOp' = "processPayroll again") =>
        /\ globalPayrolls' = globalPayrolls
        /\ \A i \in 1..Len(globalPayrolls') :
             globalPayrolls'[i].id = selectedPayrollId => globalPayrolls'[i].processed
      ]_vars

\* C5 witness: processPayroll ran twice in a row on the run seeded as a draft,
\* after one of its lines had been edited
C5_Witness ==
  /\ lastOp = "processPayroll again"
  /\ selectedPayrollId = "payroll-2026-02-20"
  /\ globalPayrolls[3].processed
  /\ globalPayrolls[3].employees # buildInitialPayrolls[3].employees

(***************************************************************************)
(* Properties of the accrual calculator (SpecAccrual)                      *)
(***************************************************************************)
\* the employee record a call of getEmployeeAccrued is about: accEmployees holds
\* exactly one employee, e1
CalledEmployee == accEmployees[1]

\* days recorded for the called employee and month, project by project
CalledRecords(call) ==
  IF call.employeeId \in DOMAIN accMonthlyTime
       /\ call.month \in DOMAIN accMonthlyTime[call.employeeId]
  THEN accMonthlyTime[call.employeeId][call.month]
  ELSE <<>>

\* C9: for a non-accountant employee with a positive contractRate,
\* getEmployeeAccrued returns exactly contractRate for every month key, whatever
\* work-days are or are not recorded.
C9_ContractRateIsAccrued ==
  \A c \in 1..Len(accCall) :
    (/\ accCall[c].employeeId = CalledEmployee.id
     /\ "accountant" \notin CalledEmployee.roles
     /\ ~CalledEmployee.contractRate.null
     /\ CalledEmployee.contractRate.val > 0) =>
      accCall[c].result = CalledEmployee.contractRate.val

\* C9 witness: a contract employee with a daily rate and 5 + 3 recorded days in
\* the month asked for was accrued the contract rate
C9_Witness ==
  /\ Len(accCall) = 1
  /\ accCall[1].employeeId = "e1"
  /\ accCall[1].month = "2026-01"
  /\ accEmployees = << Employee("e1", {"executor"}, Num(1000), Num(150000)) >>
  /\ CalledRecords(accCall[1]) = << PD("projA", 5), PD("projB", 3) >>
  /\ accCall[1].result = 150000

\* C10: for a non-accountant employee without a contract rate,
\* getEmployeeAccrued returns the sum of the days recorded for that employee and
\* month over all projects times dailyRate (a missing dailyRate counts as 0);
\* days 5 and 3 at 1000 a day give 8000, and the result is 0 when the month has
\* no time records.
C10_DaysTimesDailyRate ==
  \A c \in 1..Len(accCall) :
    (/\ accCall[c].employeeId = CalledEmployee.id
     /\ "accountant" \notin CalledEmployee.roles
     /\ (CalledEmployee.contractRate.null \/ CalledEmployee.contractRate.val = 0)) =>
      LET records == CalledRecords(accCall[c])
          days == SumSeq([j \in 1..Len(records) |-> records[j].days])
          rate == IF CalledEmployee.dailyRate.null THEN 0
                  ELSE CalledEmployee.dailyRate.val
      IN /\ accCall[c].result = days * rate
         /\ records = <<>> => accCall[c].result = 0
         /\ (records = << PD("projA", 5), PD("projB", 3) >> /\ rate = 1000) =>
              accCall[c].result = 8000

\* C10 witness: days 5 and 3 at 1000 a day were accrued as 8000
C10_Witness ==
  /\ Len(accCall) = 1
  /\ accCall[1].employeeId = "e1"
  /\ accCall[1].month = "2026-01"
  /\ accEmployees = << Employee("e1", {"executor"}, Num(1000), NullNum) >>
  /\ CalledRecords(accCall[1]) = << PD("projA", 5), PD("projB", 3) >>
  /\ accCall[1].result = 8000

(***************************************************************************)
(* Properties of the proportional allocator (SpecAlloc)                    *)
(***************************************************************************)
\* s is p * days / totalDays rounded to the nearest integer, halves upwards,
\* for a payment of halfAmount half-rubles:  s <= p * d / T + 1/2 < s + 1
IsRounded(s, halfAmount, days, totalDays) ==
  /\ 2 * totalDays * s <= halfAmount * days + totalDays
  /\ halfAmount * days + totalDays < 2 * totalDays * (s + 1)

\* the sum of the project shares of payment k
SharesSum(d, k) == SumSeq(d.projectBreakdown[k])

\* C7: for a listed employee paid by daily rate with totalDays > 0, the share of
\* every listed project in every payment p is round(p * projectDays / totalDays);
\* days 5 and 5 with p = 10000 give 5000 and 5000, days 1 and 2 with p = 3000
\* give 1000 and 2000.
C7_ShareIsRoundedProportion ==
  \A r \in 1..Len(distResult) :
    LET d == distResult[r] IN
    (d.listed /\ ~d.isContract /\ d.totalDays > 0) =>
      /\ \A k \in 1..Len(d.payments), j \in 1..Len(d.projects) :
           IsRounded(d.projectBreakdown[k][j], d.payments[k],
                     d.projects[j].days, d.totalDays)
      /\ (distTimeData = << PD("projA", 5), PD("projB", 5) >> /\ d.payments = << 20000 >>) =>
           d.projectBreakdown = << << 5000, 5000 >> >>
      /\ (distTimeData = << PD("projA", 1), PD("projB", 2) >> /\ d.payments = << 6000 >>) =>
           d.projectBreakdown = << << 1000, 2000 >> >>

C11_AccountantsAccrueNothing ==
  \A c \in 1..Len(accCall) :
    /\ (/\ accCall[c].employeeId = CalledEmployee.id
        /\ "accountant" \in CalledEmployee.roles) => accCall[c].result = 0
    /\ (\A i \in 1..Len(accEmployees) : accEmployees[i].id # accCall[c].employeeId)
         => accCall[c].result = 0

\* C11 witness: an employee who is both gip and accountant, with a daily rate,
\* a contract rate and 5 + 3 recorded days in the month asked for, accrued 0
C11_Witness ==
  /\ Len(accCall) = 1
  /\ accCall[1].employeeId = "e1"
  /\ accCall[1].month = "2026-01"
  /\ accEmployees = << Employee("e1", {"gip", "accountant"}, Num(1000), Num(150000)) >>
  /\ CalledRecords(accCall[1]) = << PD("projA", 5), PD("projB", 3) >>
  /\ accCall[1].result = 0

(***************************************************************************)
(* Properties of the reconciliation columns (SpecReconcile)                *)
(***************************************************************************)
\* C12 as stated: a project row, and the totals row, whose remaining amount is
\* exactly one half of its budget is coloured green (healthy).
C12_HalfIsHealthy ==
  financeMounted =>
    /\ \A p \in activeProjects :
         (projects[p].budget > 0 /\ 2 * remaining(p) = projects[p].budget)
           => remainingColor(p) = "green"
    /\ (totalBudget > 0 /\ 2 * totalRemaining = totalBudget)
         => totalRemainingColor = "green"

\* C12 amended: a project row, and the totals row, whose remaining amount is
\* exactly one half of its budget is coloured yellow (warning); green needs
\* strictly more than one half.
C12_HalfIsWarning ==
  financeMounted =>
    /\ \A p \in activeProjects :
         (projects[p].budget > 0 /\ 2 * remaining(p) = projects[p].budget)
           => remainingColor(p) = "yellow"
    /\ (totalBudget > 0 /\ 2 * totalRemaining = totalBudget)
         => totalRemainingColor = "yellow"

\* C12 witness: the page shows proj-2 with 1 000 000 paid of a budget of
\* 2 000 000, in yellow
C12_Witness ==
  /\ financeMounted
  /\ "proj-2" \in activeProjects
  /\ projects["proj-2"].budget = 2000000
  /\ getTotalPaid("proj-2") = 1000000
  /\ remainingColor("proj-2") = "yellow"

\* C13: for a project with budget > 0, remaining / budget strictly above 0.5 is
\* green (healthy), from 0.1 up to 0.5 is yellow (warning), strictly below 0.1,
\* a negative remaining included, is red (critical); exactly 0.10 is yellow and
\* 0.099 is red; every such project gets exactly one of the three colours.
C13_ThreeTiers ==
  financeMounted =>
    \A p \in activeProjects :
      LET b == projects[p].budget
          r == remaining(p)
          c == remainingColor(p)
      IN b > 0 =>
           /\ c \in {"green", "yellow", "red"}
           /\ (c = "green") <=> (2 * r > b)
           /\ (c = "yellow") <=> (10 * r >= b /\ 2 * r <= b)
           /\ (c = "red") <=> (10 * r < b)
           /\ (10 * r = b) => c = "yellow"
           /\ (b % 1000 = 0 /\ r = 99 * (b \div 1000)) => c = "red"
           /\ (r < 0) => c = "red"

\* C13 witness: the page shows proj-2 with 900 000 paid of a budget of
\* 1 000 000 (fraction 0.10), in yellow
C13_Witness ==
  /\ financeMounted
  /\ "proj-2" \in activeProjects
  /\ projects["proj-2"].budget = 1000000
  /\ getTotalPaid("proj-2") = 900000
  /\ remainingColor("proj-2") = "yellow"

\* states in which the other cases of the tiers are on the page: the totals row
\* at exactly one half, a project at fraction 0.099, an overspent project
TotalsRowAtHalf == financeMounted /\ totalBudget > 0 /\ 2 * totalRemaining = totalBudget
ProjectAtNinetyNineThousandths ==
  /\ financeMounted
  /\ projects["proj-2"].budget = 1000000
  /\ remaining("proj-2") = 99000
  /\ remainingColor("proj-2") = "red"
ProjectOverspent ==
  financeMounted /\ projects["proj-2"].budget > 0 /\ remaining("proj-2") < 0

\* sum of the amounts of all entries of a ledger, over all buckets
AllEntriesTotal(ledger) ==
  SumOver([b \in DOMAIN ledger |-> BucketTotal(ledger, b)], DOMAIN ledger)

\* C14: whatever the statuses of the projects and after any appends, the totals
\* row's paid total is the sum of the amounts of all entries of the expense
\* ledger (all project buckets plus the unassigned bucket), and its income
\* total is the same sum over the income ledger.
C14_TotalsCoverWholeLedger ==
  financeMounted =>
    /\ totalPaidAll = AllEntriesTotal(payments)
    /\ totalIncomeAll = AllEntriesTotal(incomes)

(***************************************************************************)
(* Subcontract payments of a project (SpecReconcile)                       *)
(***************************************************************************)
\* subcontractor ids and bucket keys the function is called with; "proj-9" has
\* no bucket
SubcontractorIds == {"psub-3", "psub-9"}
BucketKeysAsked == Buckets \cup {"proj-9"}

\* positions (period index, place in the cell) of the entries of a bucket of
\* the shared expense ledger whose reason is "subcontract"
SubcontractPositions(projectId) ==
  {pos \in LedgerWeeks \X (1..(MaxAppends + 2)) :
     /\ pos[2] <= Len(globalPayments[projectId][pos[1]])
     /\ globalPayments[projectId][pos[1]][pos[2]].reason = "subcontract"}

\* C15: getProjectSubcontractorPaid(p, s) is the sum of the amounts of all
\* entries of expense bucket p, over all period indices, whose reason is
\* "subcontract", 0 when bucket p does not exist, and the same for every
\* subcontractor id s.
C15_SubcontractorPaidIsReasonTotal ==
  \A p \in BucketKeysAsked, s \in SubcontractorIds :
    /\ p \notin DOMAIN globalPayments => getProjectSubcontractorPaid(p, s) = 0
    /\ p \in DOMAIN globalPayments =>
         /\ \A w \in LedgerWeeks : Len(globalPayments[p][w]) <= MaxAppends + 2
         /\ getProjectSubcontractorPaid(p, s) =
              SumOver([pos \in SubcontractPositions(p) |->
                         globalPayments[p][pos[1]][pos[2]].amount],
                      SubcontractPositions(p))
    /\ \A t \in SubcontractorIds :
         getProjectSubcontractorPaid(p, s) = getProjectSubcontractorPaid(p, t)

\* C15 witness: after a save of 50 for the subcontract task acc-8 next to the
\* seeded 200 000, both subcontractor ids are reported 200 050 paid on proj-2,
\* of the 470 050 the bucket holds
C15_Witness ==
  /\ lastOp = "saveEntry"
  /\ getProjectSubcontractorPaid("proj-2", "psub-3") = 200050
  /\ getProjectSubcontractorPaid("proj-2", "psub-9") = 200050
  /\ BucketTotal(globalPayments, "proj-2") = 470050
  /\ getProjectSubcontractorPaid("proj-9", "psub-3") = 0

(***************************************************************************)
(* Properties of the ledger entries (SpecCreate, Spec)                     *)
(***************************************************************************)
\* the entries of a ledger, of every bucket and period
EntriesOf(ledger) ==
  UNION { SeqToSet(ledger[b][w]) : b \in DOMAIN ledger, w \in LedgerWeeks }

\* the reason codes of the data model
ReasonCodes == {"salary", "subcontract", "additional", "other", "income"}

\* C16: in every reachable state, the reason of every entry of the expense and
\* income ledgers is absent or one of salary, subcontract, additional, other,
\* income, also for entries appended for accounting tasks of every subtype
\* that CreateTaskDialog can create.
C16_ReasonsAreReasonCodes ==
  \A e \in EntriesOf(globalPayments) \cup EntriesOf(globalIncomes) :
    e.reason = Undefined \/ e.reason \in ReasonCodes

\* C17: in every reachable state every entry of the expense ledger and of the
\* income ledger has amount >= 0: the seeded entries do, and Finance.saveEntry
\* and TaskDetailsDialog.handleSavePayment never append an entry with a
\* negative amount, whatever text is typed into the amount fields.
C17_AmountsNotNegative ==
  \A e \in EntriesOf(globalPayments) \cup EntriesOf(globalIncomes)
             \cup EntriesOf(payments) \cup EntriesOf(incomes) :
    e.amount >= 0

\* C17 witness: the task card saved 50 and -30 typed for two employees of
\* acc-4 as an entry of 20, and a later save of the Finance page was rejected
C17_Witness ==
  /\ lastOp = "saveEntry rejected"
  /\ \E e \in EntriesOf(globalPayments) : e.taskId = "acc-4" /\ e.amount = 20

(***************************************************************************)
(* Properties of the period grid (SpecWeeks)                               *)
(***************************************************************************)
\* day 4 is Monday 1970-01-05, and the weekdays repeat every seven days
IsMonday(date) == date % 7 = 4

\* every start is a Monday, and each start is seven calendar days after the
\* one before it
WeeklyMondays(weeks) ==
  /\ \A i \in 1..Len(weeks) : IsMonday(weeks[i])
  /\ \A i \in 1..(Len(weeks) - 1) :
       /\ weeks[i] < weeks[i + 1]
       /\ weeks[i + 1] - weeks[i] = 7

\* the grid is not empty, starts with the Monday of the week (Monday to
\* Sunday) that contains firstDay, proceeds by weeks, and ends with the last
\* Monday that is not after lastDay
MondaysBetween(weeks, firstDay, lastDay) ==
  /\ Len(weeks) >= 1
  /\ WeeklyMondays(weeks)
  /\ weeks[1] <= firstDay
  /\ firstDay < weeks[1] + 7
  /\ weeks[Len(weeks)] <= lastDay
  /\ lastDay < weeks[Len(weeks)] + 7

\* C18: in every sequence either policy of generateWeeks returns, the starts
\* are Mondays, strictly increasing, and consecutive starts are exactly seven
\* calendar days apart
C18_PeriodsAreWeeklyMondays ==
  /\ \A r \in 1..Len(weeksByRange) : WeeklyMondays(weeksByRange[r])
  /\ \A r \in 1..Len(weeksByHalf) : WeeklyMondays(weeksByHalf[r])

\* both policies have returned a grid of the mock projects' span and of the
\* first half of 2024
C18_Witness ==
  /\ weeksByRange # << >>
  /\ weeksByHalf # << >>
  /\ Len(weekRanges) = 2
  /\ weekNow = [year |-> 2024, month |-> 2]
  /\ Len(weeksByRange[1]) > 40
  /\ Len(weeksByHalf[1]) = 26
  /\ weeksByHalf[1][1] = 19723

\* C19: the range-derived policy returns nothing for an empty list; for a
\* list of project ranges (each ending no earlier than it starts) it returns
\* exactly the Mondays from the Monday of the week containing the earliest
\* startDate to the last Monday not after the latest endDate plus 14 days
C19_RangeGridSpansProjects ==
  \A r \in 1..Len(weeksByRange) :
    IF Len(weekRanges) = 0
    THEN weeksByRange[r] = << >>
    ELSE
      LET earliest == CHOOSE d \in {parseISO(weekRanges[i].startDate) : i \in 1..Len(weekRanges)} :
                        \A i \in 1..Len(weekRanges) : d <= parseISO(weekRanges[i].startDate)
          latest   == CHOOSE d \in {parseISO(weekRanges[i].endDate) : i \in 1..Len(weekRanges)} :
                        \A i \in 1..Len(weekRanges) : d >= parseISO(weekRanges[i].endDate)
      IN  MondaysBetween(weeksByRange[r], earliest, latest + 14)

\* the grid of a project from Sunday 2024-09-01 to Monday 2024-09-02 and of a
\* project of the single day 2024-02-26: Monday 2024-02-26 to Monday
\* 2024-09-16, thirty weeks
C19_Witness ==
  /\ weeksByRange # << >>
  /\ weekRanges = << DateRange(IsoDate(2024, 9, 1), IsoDate(2024, 9, 2)),
                     DateRange(IsoDate(2024, 2, 26), IsoDate(2024, 2, 26)) >>
  /\ Len(weeksByRange[1]) = 30
  /\ weeksByRange[1][1] = 19779
  /\ weeksByRange[1][30] = 19982

\* the range-derived policy has returned the empty grid for the empty list
RangeGridOfNoProjects ==
  /\ weeksByRange = << << >> >>
  /\ weekRanges = << >>

\* C20: the half-year policy returns exactly the Mondays from the Monday of
\* the week containing January 1 (clock in January to June) or July 1 (clock
\* in July to December) of the clock's year to the last Monday not after
\* June 30 or December 31, whatever project ranges it is handed
C20_HalfYearGridIgnoresRanges ==
  \A r \in 1..Len(weeksByHalf) :
    LET inFirstHalf == weekNow.month + 1 <= 6
        firstDay == IF inFirstHalf THEN DayNumber(weekNow.year, 1, 1)
                                   ELSE DayNumber(weekNow.year, 7, 1)
        lastDay  == IF inFirstHalf THEN DayNumber(weekNow.year, 6, 30)
                                   ELSE DayNumber(weekNow.year, 12, 31)
    IN  /\ MondaysBetween(weeksByHalf[r], firstDay, lastDay)
        /\ \A other \in {<< >>} \cup {<< x >> : x \in WeekRangePool} :
             generateWeeks(other, weekNow) = weeksByHalf[r]

\* the grid computed in June 2025 with two project ranges at hand: Monday
\* 2024-12-30 to Monday 2025-06-30
C20_Witness ==
  /\ weeksByHalf # << >>
  /\ weekNow = [year |-> 2025, month |-> 5]
  /\ Len(weekRanges) = 2
  /\ Len(weeksByHalf[1]) = 27
  /\ weeksByHalf[1][1] = 20087
  /\ weeksByHalf[1][27] = 20269

\* the grid computed in December 2026: Monday 2026-06-29 to Monday 2026-12-28
HalfYearGridOfSecondHalf ==
  /\ weeksByHalf # << >>
  /\ weekNow = [year |-> 2026, month |-> 11]
  /\ weeksByHalf[1][1] = 20633
  /\ weeksByHalf[1][Len(weeksByHalf[1])] = 20815

ExactRoutes ==
  {<< m, << "departments" >> >> : m \in {"GET", "POST"}}
    \cup {<< m, << "users" >> >> : m \in {"GET", "POST"}}
    \cup {<< m, << "contractors" >> >> : m \in {"GET", "POST"}}
    \cup {<< m, << "projects" >> >> : m \in {"GET", "POST"}}
    \cup {<< m, << "tasks" >> >> : m \in {"GET", "POST"}}
    \cup {<< "GET", << "subcontracts", "requests" >> >>}
    \cup {<< m, << "time-tracking", "entries" >> >> : m \in {"GET", "POST"}}
    \cup {<< m, << "time-tracking", "day-offs" >> >> : m \in {"GET", "POST"}}
    \cup {<< "ANY", << "auth", "refresh" >> >>}

PatternRoutes ==
  {<< m, << "departments", "*" >> >> : m \in {"PATCH", "DELETE"}}
    \cup {<< m, << "users", "*" >> >> : m \in {"PATCH", "DELETE"}}
    \cup {<< m, << "contractors", "*" >> >> : m \in {"GET", "PATCH", "DELETE"}}
    \cup {<< m, << "projects", "*" >> >> : m \in {"GET", "PATCH", "DELETE"}}
    \cup {<< m, << "tasks", "*" >> >> : m \in {"GET", "PATCH", "DELETE"}}
    \cup {<< "POST", << "projects", "*", "restore" >> >>}
    \cup {<< "GET", << "projects", "*", seg >> >> : seg \in {"members", "tasks", "subcontractors"}}
    \cup {<< m, << "projects", "*", "sections" >> >> : m \in {"GET", "PUT"}}
    \cup {<< m, << "projects", "*", "messages" >> >> : m \in {"GET", "POST"}}
    \cup {<< "ANY", << "projects", "*", "files" >> >>}
    \cup {<< "ANY", << "contractors", "*", "projects" >> >>}

\* the (method, path) pair matches no route of the table
Unrouted(method, path) ==
  LET segments == SelectSeq(path, LAMBDA x : x # "")
  IN  /\ \A r \in ExactRoutes :
           ~(r[1] \in {method, "ANY"} /\ path = << "" >> \o r[2])
      /\ \A r \in PatternRoutes :
           ~(/\ r[1] \in {method, "ANY"}
             /\ Len(segments) = Len(r[2])
             /\ \A i \in 1..Len(segments) : r[2][i] = "*" \/ r[2][i] = segments[i])

\* C22: a call of mockApiFetch whose (method, path) matches no route returns
\* the empty array (it does not throw) and leaves all seven in-memory
\* collections as they were
C22_UnroutedCallChangesNothing ==
  [][(nApiCalls' = nApiCalls + 1 /\ Unrouted(apiRequest'.method, apiRequest'.path))
       => (apiDb' = apiDb /\ apiResponse' = RespArray(<< >>))]_vars

\* after a call that wrote a collection, GET /projects/proj-1/analytics (which
\* ProjectAnalytics asks for and no route names) returned the empty array
C22_Witness ==
  /\ nApiCalls = 2
  /\ apiDb # mockDb
  /\ apiRequest = [method |-> "GET", path |-> << "", "projects", "proj-1", "analytics" >>]
  /\ Unrouted(apiRequest.method, apiRequest.path)
  /\ apiResponse = RespArray(<< >>)

\* a routed call has answered with something else than the empty array
RoutedCallAnswered ==
  /\ nApiCalls = 1
  /\ ~Unrouted(apiRequest.method, apiRequest.path)
  /\ apiResponse.kind = "object"

(***************************************************************************)
(* Proportions of the salary distribution (SpecAlloc)                      *)
(***************************************************************************)
RECURSIVE SumFracs(_)
\* the sum of a list of fractions, as a fraction
SumFracs(fracs) ==
  IF fracs = << >> THEN Frac(0, 1)
  ELSE LET rest == SumFracs(Tail(fracs))
       IN  Frac(Head(fracs).num * rest.den + rest.num * Head(fracs).den,
                Head(fracs).den * rest.den)

\* the sum of the proportions of the project rows of a distribution
ProportionsSum(d) == SumFracs([j \in 1..Len(d.projects) |-> d.projects[j].proportion])

ContractEmployeeWithTwoRows ==
  /\ Len(distResult) = 1
  /\ distResult[1].listed
  /\ distResult[1].isContract
  /\ Len(distResult[1].projects) = 2
  /\ ProportionsSum(distResult[1]) = Frac(2, 1)

(***************************************************************************)
(* Sums of the salary distribution view (SpecView)                         *)
(***************************************************************************)
\* the employees the view lists under the present filters
Listed == filtered(selectedMonth, searchQuery, selectedDepartment)

\* C24: for every selectable month and every search and department filter,
\* the per-project accrued amounts of the project summary add up to the grand
\* total accrued of the listed employees, and the accrued amounts of each
\* listed employee's project rows add up to that employee's total accrued
C24_SumsReconcile ==
  /\ SumOver(projectSummary(Listed), DOMAIN projectSummary(Listed)) = grandTotal(Listed)
  /\ \A i \in 1..Len(Listed) :
       SumOver([j \in 1..Len(Listed[i].dist.projects) |-> Listed[i].dist.projects[j].accrued],
               1..Len(Listed[i].dist.projects))
         = Listed[i].dist.totalAccrued

\* January 2026 without filters: seven employees listed and the sums agree
SumsAgreeInJanuary ==
  /\ selectedMonth = "2026-01"
  /\ searchQuery = ""
  /\ selectedDepartment = "all"
  /\ Len(Listed) = 7
  /\ SumOver(projectSummary(Listed), DOMAIN projectSummary(Listed)) = grandTotal(Listed)

\* a month without recorded days: the contract employee user-6 is the only one
\* listed, with 150000 accrued and no project row
ContractEmployeeWithoutRows ==
  /\ selectedMonth = "2026-03"
  /\ Len(Listed) = 1
  /\ Listed[1].id = "user-6"
  /\ Listed[1].dist.projects = << >>
  /\ grandTotal(Listed) = 150000
  /\ DOMAIN projectSummary(Listed) = {}

(***************************************************************************)
(* Properties of the payroll store under draft edits (SpecPayroll)         *)
(***************************************************************************)
\* the local copy with the selected run marked processed, run by run
PublishedCopy(runs) ==
  /\ Len(runs) = Len(localPayrolls)
  /\ \A i \in 1..Len(localPayrolls) :
       /\ runs[i].id = localPayrolls[i].id
       /\ runs[i].date = localPayrolls[i].date
       /\ runs[i].type = localPayrolls[i].type
       /\ runs[i].employees = localPayrolls[i].employees
       /\ runs[i].processed =
            (localPayrolls[i].processed \/ localPayrolls[i].id = selectedPayrollId)

\* C25: toggleEmployee, toggleAll and updateAmount leave the payroll store, and
\* with it getSalaryPaidOnDate of every date, unchanged; the store changes only
\* in a processPayroll step, which publishes the whole local copy with the
\* selected run marked processed.
C25_DraftEditsStayLocal ==
  [][ /\ (lastOp' \in {"toggleEmployee", "toggleAll", "updateAmount"}) =>
           /\ globalPayrolls' = globalPayrolls
           /\ \A d \in SalaryDates : getSalaryPaidOnDate(d)' = getSalaryPaidOnDate(d)
      /\ (globalPayrolls' # globalPayrolls) =>
           lastOp' \in {"processPayroll", "processPayroll again"}
      /\ (lastOp' \in {"processPayroll", "processPayroll again"}) =>
           PublishedCopy(globalPayrolls') ]_vars

\* C25 witness: a line of the draft run was toggled to paid and the store still
\* holds the seeded draft
C25_Witness ==
  /\ lastOp = "toggleEmployee"
  /\ selectedPayrollId = "payroll-2026-02-20"
  /\ \E k \in 1..Len(localPayrolls[3].employees) : localPayrolls[3].employees[k].paid
  /\ globalPayrolls = buildInitialPayrolls

\* the draft edits reach the store when processPayroll runs
DraftEditsPublished ==
  /\ lastOp = "processPayroll"
  /\ globalPayrolls[3].employees # buildInitialPayrolls[3].employees

\* the amounts of the paid lines of the processed runs dated date, added up
\* run by run and line by line
ProcessedPaidSum(date) ==
  LET runsOn == {i \in 1..Len(globalPayrolls) :
                   globalPayrolls[i].date = date /\ globalPayrolls[i].processed}
      paidOf(i) == {k \in 1..Len(globalPayrolls[i].employees) :
                      globalPayrolls[i].employees[k].paid}
      lineSum(i) == SumOver([k \in paidOf(i) |-> globalPayrolls[i].employees[k].amount],
                            paidOf(i))
  IN SumOver([i \in runsOn |-> lineSum(i)], runsOn)

\* C28: getSalaryPaidOnDate(d) is the sum of the amounts of the paid lines of
\* the processed runs of the payroll store dated d; a date whose runs are all
\* unprocessed, and a date without a run, give 0.
C28_PaidOnDateIsProcessedPaidSum ==
  \A d \in SalaryDates :
    /\ getSalaryPaidOnDate(d) = ProcessedPaidSum(d)
    /\ (\A i \in 1..Len(globalPayrolls) :
          globalPayrolls[i].date = d => ~globalPayrolls[i].processed)
         => getSalaryPaidOnDate(d) = 0

\* C28 witness: the store holds the draft run of 2026-02-20 with a paid line of
\* a positive amount, published while another run was selected, next to
\* processed runs with paid lines
C28_Witness ==
  /\ ~globalPayrolls[3].processed
  /\ \E k \in 1..Len(globalPayrolls[3].employees) :
       /\ globalPayrolls[3].employees[k].paid
       /\ globalPayrolls[3].employees[k].amount > 0
  /\ getSalaryPaidOnDate("2026-02-20") = 0
  /\ getSalaryPaidOnDate("2026-01-20") > 0
  /\ getSalaryPaidOnDate("2026-03-05") = 0

(***************************************************************************)
(* Rejected saves of the Finance page (Spec)                               *)
(***************************************************************************)
\* the text of an amount field is empty, is no number, or is a number <= 0
NotPositiveText(text) ==
  text = "" \/ parseFloat(text).nan \/ parseFloat(text).val <= 0

\* the form contents for which a save is to be rejected: no cell is edited; in
\* income mode the amount is not positive; in payment mode no task is selected
\* or the total of the form is <= 0
FormRejected(dialogTaskId, dialogAmount, employeeAmounts) ==
  \/ editCell = NoCell
  \/ dialogMode = "income" /\ NotPositiveText(dialogAmount)
  \/ dialogMode # "income" /\ dialogTaskId \in {"", "none"}
  \/ /\ dialogMode # "income"
     /\ dialogTaskId \notin {"", "none"}
     /\ IF dialogTaskEmployees(dialogTaskId) # <<>>
        THEN \A e \in DOMAIN employeeAmounts : NotPositiveText(employeeAmounts[e])
        ELSE NotPositiveText(dialogAmount)

\* C30: a saveEntry call whose form contents are rejected leaves both shared
\* ledgers and both local copies of the Finance page as they were: a step that
\* changes one of the four is no saveEntry call with rejected form contents.
C30_RejectedSaveChangesNothing ==
  [][ (\/ globalPayments' # globalPayments
       \/ globalIncomes' # globalIncomes
       \/ payments' # payments
       \/ incomes' # incomes) =>
        \A dialogTaskId \in DialogTaskChoices, dialogAmount \in AmountTexts :
          \A employeeAmounts \in FormMaps(dialogTaskEmployees(dialogTaskId)) :
            FormRejected(dialogTaskId, dialogAmount, employeeAmounts) =>
              ~saveEntry(dialogTaskId, dialogAmount, employeeAmounts) ]_vars

\* C30 witness: a save of the income dialog was rejected after an earlier save
\* had appended an entry, and the dialog is still open on its cell
C30_Witness ==
  /\ lastOp = "saveEntry rejected"
  /\ dialogMode = "income"
  /\ dialogOpen
  /\ editCell # NoCell
  /\ nAppends > 0

\* a save of the payment dialog was rejected with a task selected
PaymentSaveRejected ==
  /\ lastOp = "saveEntry rejected"
  /\ dialogMode = "payment"
  /\ dialogOpen

CardWritesAsAccountant ==
  [][ (lastOp' = "handleSavePayment" /\ globalPayments' # globalPayments) =>
        "accountant" \in demoUsers[user] ]_vars

\* the Finance dialog is opened by an accountant alone
DialogOpenedByAccountant ==
  [][ (~dialogOpen /\ dialogOpen') => "accountant" \in demoUsers[user] ]_vars

(***************************************************************************)
(* Payments recorded from the task card (Spec)                             *)
(***************************************************************************)
\* C26: the task card records at most one payment per task: whenever
\* handleSavePayment appends an entry, the task of the card has no earlier
\* entry of the card, neither one whose status update is still pending nor
\* one whose status update has set the task to done.
C26_OnePaymentPerTask ==
  [][ (lastOp' = "handleSavePayment" /\ globalPayments' # globalPayments) =>
        /\ pendingPatch[cardTaskId] = 0
        /\ taskStatus[cardTaskId] # "done" ]_vars

\* two saves of the card are waiting for their status update at once
TwoSavesPending == \E taskId \in TaskIds : pendingPatch[taskId] = 2

\* a save of the card whose status update has been applied
CardSaveCompleted ==
  \E taskId \in TaskIds :
    /\ taskStatus[taskId] = "done"
    /\ mockTasks[taskId].status # "done"
    /\ pendingPatch[taskId] = 0

(***************************************************************************)
(* Payments of subcontractor tasks (SpecCreate)                            *)
(***************************************************************************)
\* the entry a step has appended to cell (projectId, weekIndex) of the shared
\* expense ledger
AppendedEntry(projectId, weekIndex) ==
  globalPayments'[projectId][weekIndex][Len(globalPayments'[projectId][weekIndex])]

\* every append to a bucket of a project for a task with one of the reasons
\* adds the amount of the entry to getProjectSubcontractorPaid of the project
PaymentsCountFor(subtypes) ==
  \A p \in ProjectIds, w \in LedgerWeeks :
    (/\ Len(globalPayments'[p][w]) = Len(globalPayments[p][w]) + 1
     /\ AppendedEntry(p, w).taskId \in DOMAIN allTasks
     /\ allTasks[AppendedEntry(p, w).taskId].taskType = "accounting"
     /\ allTasks[AppendedEntry(p, w).taskId].accountingSubtype \in subtypes) =>
      \A s \in SubcontractorIds :
        getProjectSubcontractorPaid(p, s)' =
          getProjectSubcontractorPaid(p, s) + AppendedEntry(p, w).amount

\* C27: every payment recorded against a subcontractor task of project p, be
\* it a task created with the subtype subcontractors or a seeded task with the
\* subtype subcontract, increases getProjectSubcontractorPaid(p, s) by the
\* amount of the payment, for every subcontractor id s.
C27_SubcontractorPaymentsCounted ==
  [][ PaymentsCountFor({"subcontractors", "subcontract"}) ]_vars

\* payments of the seeded subcontract tasks are counted
SeededSubcontractPaymentsCounted ==
  [][ PaymentsCountFor({"subcontract"}) ]_vars

\* a payment of a seeded subcontract task has been saved
SeededSubcontractPaid ==
  /\ lastOp = "saveEntry"
  /\ getProjectSubcontractorPaid("proj-2", "psub-3") = 200050
====
